---------------------------- MODULE Spec2Model ----------------------------
(***************************************************************************)
(* A model of dwisiswant0/fasttemplate: the tag classifier, the tokenizer, *)
(* the Shunting-Yard conversion, the postfix evaluator, the function-call  *)
(* parser and dispatcher, the strict and tolerant render loops and Eval.   *)
(*                                                                         *)
(* Texts are TLA+ strings.  Positions are Go's: 0-based, half-open         *)
(* slices.  Numbers are exact rationals n/d (d > 0, lowest terms); the Go  *)
(* type (int or float64) is kept in the value's kind, because reflection,  *)
(* formatting and the % operator depend on it.  Only ASCII text is         *)
(* modelled.                                                               *)
(***************************************************************************)
EXTENDS Integers, Sequences, FiniteSets, TLC

VARIABLES
    pc,         \* "idle", "ready" (a Template was reset), "exec" (one-shot loop),
                \* "texec" (compiled loop), "done"
    mode,       \* "strict" (Execute) or "std" (ExecuteStd)
    data,       \* m: the bindings passed to the running call
    rest,       \* s: one-shot render, the not yet scanned rest of the template
    startTag,   \* one-shot render: the startTag argument
    endTag,     \* one-shot render: the endTag argument
    tpl,        \* t: the Template (template, startTag, endTag, texts, tags)
    idx,        \* i: the loop index of Template.Execute / Template.ExecuteStd
    sink,       \* w: everything written so far
    nn,         \* the byte count the call returns
    rerr,       \* the error the call returned (NoErr when nil)
    crashed,    \* TRUE when a panic left the call
    calls,      \* the bound functions invoked so far, in order
    exprCache,  \* expressionCache.postfix
    res,        \* the input and result of the last Eval
    tagLog,     \* per processed tag of the running render: what its resolution did
    vres,       \* the bindings and the result of the last Validate of t
    last,       \* the last call that took a template text, and its arguments
    procs,      \* the goroutines that call methods of t concurrently, each with
                \* the state of its call
    mu          \* exprCache.mu: the goroutines that hold it shared, and the one
                \* that holds it exclusively (None: nobody)

vars == <<pc, mode, data, rest, startTag, endTag, tpl, idx, sink, nn, rerr,
          crashed, calls, exprCache, res, tagLog, vres, last, procs, mu>>

-----------------------------------------------------------------------------
(* Text helpers (package strings / bytes).                                 *)

\* Go: s[i]
At(str, k) == SubSeq(str, k + 1, k + 1)

\* Go: s[lo:hi]
Slice(str, lo, hi) == SubSeq(str, lo + 1, hi)

\* Go: s[lo:]
From(str, lo) == SubSeq(str, lo + 1, Len(str))

IsSpace(c) == c \in {" ", "\t", "\n", "\r"}

RECURSIVE TrimLeft(_)
TrimLeft(str) ==
    IF Len(str) > 0 /\ IsSpace(At(str, 0)) THEN TrimLeft(From(str, 1)) ELSE str

RECURSIVE TrimRight(_)
TrimRight(str) ==
    IF Len(str) > 0 /\ IsSpace(At(str, Len(str) - 1))
    THEN TrimRight(Slice(str, 0, Len(str) - 1))
    ELSE str

\* strings.TrimSpace
TrimSpace(str) == TrimRight(TrimLeft(str))

\* strings.HasPrefix, strings.HasSuffix
HasPrefix(str, p) == Len(str) >= Len(p) /\ Slice(str, 0, Len(p)) = p
HasSuffix(str, p) == Len(str) >= Len(p) /\ From(str, Len(str) - Len(p)) = p

\* bytes.Index / strings.IndexByte: the first position of sub in str, or -1
RECURSIVE IndexFrom(_, _, _)
IndexFrom(str, sub, k) ==
    IF k + Len(sub) > Len(str) THEN -1
    ELSE IF Slice(str, k, k + Len(sub)) = sub THEN k
    ELSE IndexFrom(str, sub, k + 1)

Index(str, sub) == IndexFrom(str, sub, 0)
IndexByte(str, c) == IndexFrom(str, c, 0)

\* bytes.Count: non-overlapping occurrences of sub (sub non-empty)
RECURSIVE Count(_, _)
Count(str, sub) ==
    LET k == Index(str, sub)
    IN  IF k < 0 THEN 0 ELSE 1 + Count(From(str, k + Len(sub)), sub)

\* strings.ContainsAny
RECURSIVE ContainsAny(_, _)
ContainsAny(str, chars) ==
    IF Len(str) = 0 THEN FALSE
    ELSE IndexByte(chars, At(str, 0)) >= 0 \/ ContainsAny(From(str, 1), chars)

LowerChars == "abcdefghijklmnopqrstuvwxyz"
UpperChars == "ABCDEFGHIJKLMNOPQRSTUVWXYZ"
DigitChars == "0123456789"

IsDigit(c) == Len(c) = 1 /\ IndexByte(DigitChars, c) >= 0
IsLetter(c) == Len(c) = 1 /\ (IndexByte(LowerChars, c) >= 0 \/ IndexByte(UpperChars, c) >= 0)

\* The printable ASCII characters in code order (the backquote left out):
\* byte comparison of texts.
AsciiOrder ==
    " !\"#$%&'()*+,-./0123456789:;<=>?@ABCDEFGHIJKLMNOPQRSTUVWXYZ[\\]^_abcdefghijklmnopqrstuvwxyz{|}~"

\* Go: a < b on strings
RECURSIVE StrLess(_, _)
StrLess(a, b) ==
    IF Len(b) = 0 THEN FALSE
    ELSE IF Len(a) = 0 THEN TRUE
    ELSE IF At(a, 0) = At(b, 0) THEN StrLess(From(a, 1), From(b, 1))
    ELSE IndexByte(AsciiOrder, At(a, 0)) < IndexByte(AsciiOrder, At(b, 0))

\* strings.ToUpper
RECURSIVE ToUpper(_)
ToUpper(str) ==
    IF Len(str) = 0 THEN ""
    ELSE LET c == At(str, 0)
             k == IndexByte(LowerChars, c)
         IN  (IF k >= 0 THEN At(UpperChars, k) ELSE c) \o ToUpper(From(str, 1))

\* strings.ReplaceAll
RECURSIVE ReplaceAll(_, _, _)
ReplaceAll(str, old, new) ==
    LET k == Index(str, old)
    IN  IF k < 0 THEN str
        ELSE Slice(str, 0, k) \o new \o ReplaceAll(From(str, k + Len(old)), old, new)

-----------------------------------------------------------------------------
(* Numbers.  A Go int is n/1 of kind "int"; a float64 is the rational n/d  *)
(* of kind "float" (rounding is not modelled).                             *)

Abs(x) == IF x < 0 THEN -x ELSE x

RECURSIVE Gcd(_, _)
Gcd(a, b) == IF b = 0 THEN a ELSE Gcd(b, a % b)

\* Go: int(f), truncation toward zero
Trunc(n, d) == IF n < 0 THEN -((-n) \div d) ELSE n \div d

\* Go: a % b on ints (the sign follows the dividend), b # 0
GoRem(a, b) == IF a < 0 THEN -((-a) % Abs(b)) ELSE a % Abs(b)

-----------------------------------------------------------------------------
(* Values: what an interface{} of the program can hold.                    *)
(*   nil | int | float | string | bool | bytes | func | error              *)
(* For "func" sv names the Go function (see FuncTable); for "error" sv is  *)
(* the message.                                                            *)

Val(kind, num, den, text) == [k |-> kind, n |-> num, d |-> den, sv |-> text]

NilV == Val("nil", 0, 1, "")
IntV(x) == Val("int", x, 1, "")
FloatV(num, den) ==
    LET g == Gcd(Abs(num), den)
    IN  IF num = 0 THEN Val("float", 0, 1, "") ELSE Val("float", num \div g, den \div g, "")
StrV(text) == Val("string", 0, 1, text)
BoolV(b) == Val("bool", IF b THEN 1 ELSE 0, 1, "")
BytesV(text) == Val("bytes", 0, 1, text)
FuncV(name) == Val("func", 0, 1, name)
ErrorV(msg) == Val("error", 0, 1, msg)

\* Errors: the error taxonomy of the program; name is the function a
\* recovered panic is attributed to.  errors.Is(e, errVariableNotFound) is
\* IsVariableNotFound(e): the %w wrappers keep the kind.
Err(kind, name) == [kind |-> kind, name |-> name]
NoErr == Err("", "")
IsVariableNotFound(e) == e.kind = "VariableNotFound"

-----------------------------------------------------------------------------
(* strconv and fmt.                                                        *)

RECURSIVE AllDigits(_)
AllDigits(str) ==
    Len(str) = 0 \/ (IsDigit(At(str, 0)) /\ AllDigits(From(str, 1)))

RECURSIVE DigitsValue(_, _)
DigitsValue(str, acc) ==
    IF Len(str) = 0 THEN acc
    ELSE DigitsValue(From(str, 1), 10 * acc + IndexByte(DigitChars, At(str, 0)))

RECURSIVE Pow10(_)
Pow10(k) == IF k = 0 THEN 1 ELSE 10 * Pow10(k - 1)

\* strconv.Atoi: an optional sign and decimal digits
Atoi(str) ==
    LET Parsed(body, neg) ==
            IF Len(body) > 0 /\ AllDigits(body)
            THEN [ok |-> TRUE,
                  v |-> IntV(IF neg THEN -DigitsValue(body, 0) ELSE DigitsValue(body, 0))]
            ELSE [ok |-> FALSE, v |-> IntV(0)]
        signed == Len(str) > 0 /\ At(str, 0) \in {"+", "-"}
    IN  Parsed(IF signed THEN From(str, 1) ELSE str, HasPrefix(str, "-"))

\* strconv.ParseFloat for plain decimals, [sign] digits [. digits] with a
\* digit on at least one side of the point (exponents, hex, inf and nan are
\* not modelled)
ParseFloat(str) ==
    LET Parsed(ip, fp, neg) ==
            IF AllDigits(ip) /\ AllDigits(fp) /\ Len(ip) + Len(fp) > 0
            THEN [ok |-> TRUE,
                  v |-> FloatV((IF neg THEN -1 ELSE 1) * DigitsValue(ip \o fp, 0),
                               Pow10(Len(fp)))]
            ELSE [ok |-> FALSE, v |-> FloatV(0, 1)]
        Split(body, dot, neg) ==
            Parsed(IF dot < 0 THEN body ELSE Slice(body, 0, dot),
                   IF dot < 0 THEN "" ELSE From(body, dot + 1), neg)
        Unsigned(body, neg) == Split(body, IndexByte(body, "."), neg)
        signed == Len(str) > 0 /\ At(str, 0) \in {"+", "-"}
    IN  Unsigned(IF signed THEN From(str, 1) ELSE str, HasPrefix(str, "-"))

RECURSIVE NatDigits(_)
NatDigits(x) ==
    IF x < 10 THEN At(DigitChars, x) ELSE NatDigits(x \div 10) \o At(DigitChars, x % 10)

\* fmt %v of an int
FormatInt(x) == IF x < 0 THEN "-" \o NatDigits(-x) ELSE NatDigits(x)

\* the decimal expansion of r/d (0 <= r < d), at most k digits
RECURSIVE FracDigits(_, _, _)
FracDigits(r, d, k) ==
    IF r = 0 \/ k = 0 THEN ""
    ELSE At(DigitChars, (10 * r) \div d) \o FracDigits((10 * r) % d, d, k - 1)

\* fmt %v of a float64 (%g, shortest form) for magnitudes from 1e-4 up to
\* 1e6, where Go prints no exponent; an expansion that does not end is cut
\* after 16 digits
FormatFloat(num, den) ==
    LET a == Abs(num)
        frac == FracDigits(a % den, den, 16)
    IN  (IF num < 0 THEN "-" ELSE "") \o NatDigits(a \div den)
            \o (IF frac = "" THEN "" ELSE "." \o frac)

\* fmt.Sprintf("%v", v)
Sprint(v) ==
    CASE v.k = "nil" -> "<nil>"
      [] v.k = "int" -> FormatInt(v.n)
      [] v.k = "float" -> FormatFloat(v.n, v.d)
      [] v.k = "string" -> v.sv
      [] v.k = "bool" -> (IF v.n = 1 THEN "true" ELSE "false")
      [] v.k = "bytes" -> "[" \o v.sv \o "]"
      [] v.k = "func" -> "0xfunc"
      [] v.k = "error" -> v.sv

-----------------------------------------------------------------------------
(* The tag classifier.                                                     *)

\* isFunctionCall: a '(' past the first byte and a trailing ')'
isFunctionCall(tag) ==
    LET tr == TrimSpace(tag)
        parenIdx == IndexByte(tr, "(")
    IN  parenIdx > 0 /\ HasSuffix(tr, ")")

\* isValidFunctionName: a letter or '_', then letters, digits and '_'
RECURSIVE ValidNameTail(_)
ValidNameTail(str) ==
    Len(str) = 0
    \/ ((IsLetter(At(str, 0)) \/ IsDigit(At(str, 0)) \/ At(str, 0) = "_")
        /\ ValidNameTail(From(str, 1)))

isValidFunctionName(name) ==
    /\ name # ""
    /\ (IsLetter(At(name, 0)) \/ At(name, 0) = "_")
    /\ ValidNameTail(From(name, 1))

\* isLikelyVariable: unquoted, not digit-led, not true/false, no space and
\* no operator character
isLikelyVariable(str) ==
    LET n == Len(str)
        quoted == n >= 2 /\ (\/ (At(str, 0) = "\"" /\ At(str, n - 1) = "\"")
                             \/ (At(str, 0) = "'" /\ At(str, n - 1) = "'"))
    IN  /\ ~quoted
        /\ ~(n > 0 /\ IsDigit(At(str, 0)))
        /\ str \notin {"true", "false"}
        /\ ~ContainsAny(str, " \t\n\r+-*/=<>!&|%")

\* commonOps
commonOps == {"+", "-", "*", "/", "=", "<", ">", "!", "&", "|", "%"}

\* the scan of isExpression from position k: a quote character not preceded
\* by a backslash toggles its own flag, whatever the other flag is; the
\* first operator character met while both flags are down decides
RECURSIVE ExprScan(_, _, _, _)
ExprScan(tag, k, inSingleQuote, inDoubleQuote) ==
    IF k >= Len(tag) THEN FALSE
    ELSE IF At(tag, k) = "'" /\ (k = 0 \/ At(tag, k - 1) # "\\")
         THEN ExprScan(tag, k + 1, ~inSingleQuote, inDoubleQuote)
    ELSE IF At(tag, k) = "\"" /\ (k = 0 \/ At(tag, k - 1) # "\\")
         THEN ExprScan(tag, k + 1, inSingleQuote, ~inDoubleQuote)
    ELSE IF inSingleQuote \/ inDoubleQuote
         THEN ExprScan(tag, k + 1, inSingleQuote, inDoubleQuote)
    ELSE IF At(tag, k) \in commonOps THEN TRUE
    ELSE IF /\ At(tag, k) \in {"&", "|", "=", "!", "<", ">", "*"}
            /\ k + 1 < Len(tag)
            /\ Slice(tag, k, k + 2) \in {"**", "&&", "||", "==", "!=", ">=", "<="}
         THEN TRUE
    ELSE ExprScan(tag, k + 1, inSingleQuote, inDoubleQuote)

\* isExpression
isExpression(tag) ==
    IF isFunctionCall(tag) THEN FALSE ELSE ExprScan(TrimSpace(tag), 0, FALSE, FALSE)

-----------------------------------------------------------------------------
(* The tokenizer.  A token is [typ, value]; the scanners return the        *)
(* position after what they consumed.                                      *)

Tok(typ, value) == [typ |-> typ, value |-> value]

\* operators: the precedence table
operators ==
    [op \in {"||", "&&", "==", "!=", ">", ">=", "<", "<=", "+", "-", "*", "/", "%", "**"} |->
        CASE op = "||" -> 1
          [] op = "&&" -> 2
          [] op \in {"==", "!="} -> 3
          [] op \in {">", ">=", "<", "<="} -> 4
          [] op \in {"+", "-"} -> 5
          [] op \in {"*", "/", "%"} -> 6
          [] op = "**" -> 7]

\* a precedence lookup that has lost the tiers of the table: every operator
\* of the table ranks the same
PrecNoTiers(op) == IF op \in DOMAIN operators THEN 1 ELSE 0

\* operators[op]: a Go map gives 0 for a key it does not hold ("=", "!")
Prec(op) == IF op \in DOMAIN operators THEN operators[op] ELSE 0

singleCharOps == {"+", "-", "*", "/", "%", ">", "<", "=", "!"}
multiCharOps == {"||", "&&", "==", "!=", ">=", "<=", "**"}

IsIdentStart(c) == IsLetter(c) \/ c = "_"
IsIdentChar(c) == IsLetter(c) \/ IsDigit(c) \/ c = "_"

\* the digit scan: [err, k]; a second '.' is an error
RECURSIVE ScanNumber(_, _, _)
ScanNumber(expr, k, hasDot) ==
    IF k < Len(expr) /\ IsDigit(At(expr, k)) THEN ScanNumber(expr, k + 1, hasDot)
    ELSE IF k < Len(expr) /\ At(expr, k) = "."
         THEN IF hasDot THEN [err |-> TRUE, k |-> k] ELSE ScanNumber(expr, k + 1, TRUE)
    ELSE [err |-> FALSE, k |-> k]

RECURSIVE ScanIdent(_, _)
ScanIdent(expr, k) ==
    IF k < Len(expr) /\ IsIdentChar(At(expr, k)) THEN ScanIdent(expr, k + 1) ELSE k

\* the inner loop over a quoted run: stops on the quote or at the end; a
\* backslash skips the byte after it
RECURSIVE SkipQuoted(_, _, _)
SkipQuoted(expr, k, quote) ==
    IF k < Len(expr) /\ At(expr, k) # quote
    THEN IF At(expr, k) = "\\" /\ k + 1 < Len(expr)
         THEN SkipQuoted(expr, k + 2, quote)
         ELSE SkipQuoted(expr, k + 1, quote)
    ELSE k

\* the search for the parenthesis that closes a call: [depth, k] when the
\* loop ends
RECURSIVE ScanCall(_, _, _)
ScanCall(expr, k, parenDepth) ==
    IF parenDepth > 0 /\ k < Len(expr)
    THEN LET c == At(expr, k)
             d1 == IF c = "(" THEN parenDepth + 1
                   ELSE IF c = ")" THEN parenDepth - 1 ELSE parenDepth
             k1 == IF c \in {"\"", "'"} THEN SkipQuoted(expr, k + 1, c) ELSE k
             k2 == IF d1 > 0 /\ k1 < Len(expr) THEN k1 + 1 ELSE k1
         IN  ScanCall(expr, k2, d1)
    ELSE [depth |-> parenDepth, k |-> k]

\* tokenize: [err, toks]
RECURSIVE TokenizeFrom(_, _, _)
TokenizeFrom(expr, k, toks) ==
    IF k >= Len(expr) THEN [err |-> NoErr, toks |-> toks]
    ELSE LET c == At(expr, k) IN
      IF IsSpace(c) THEN TokenizeFrom(expr, k + 1, toks)
      ELSE IF IsDigit(c) THEN
        LET r == ScanNumber(expr, k, FALSE)
        IN  IF r.err THEN [err |-> Err("InvalidNumberFormat", ""), toks |-> <<>>]
            ELSE TokenizeFrom(expr, r.k, Append(toks, Tok("number", Slice(expr, k, r.k))))
      ELSE IF IsIdentStart(c) THEN
        LET e == ScanIdent(expr, k + 1)
        IN  IF e < Len(expr) /\ At(expr, e) = "("
            THEN LET r == ScanCall(expr, e + 1, 1)
                 IN  IF r.depth > 0
                     THEN [err |-> Err("UnclosedFunctionCall", ""), toks |-> <<>>]
                     ELSE TokenizeFrom(expr, r.k + 1,
                              Append(toks, Tok("call", Slice(expr, k, r.k + 1))))
            ELSE TokenizeFrom(expr, e, Append(toks, Tok("ident", Slice(expr, k, e))))
      ELSE IF c \in {"\"", "'"} THEN
        LET e == SkipQuoted(expr, k + 1, c)
        IN  IF e >= Len(expr) THEN [err |-> Err("UnterminatedString", ""), toks |-> <<>>]
            ELSE TokenizeFrom(expr, e + 1, Append(toks, Tok("string", Slice(expr, k, e + 1))))
      ELSE IF c = "(" THEN TokenizeFrom(expr, k + 1, Append(toks, Tok("lparen", "(")))
      ELSE IF c = ")" THEN TokenizeFrom(expr, k + 1, Append(toks, Tok("rparen", ")")))
      ELSE IF k + 1 < Len(expr) /\ Slice(expr, k, k + 2) \in multiCharOps
           THEN TokenizeFrom(expr, k + 2, Append(toks, Tok("op", Slice(expr, k, k + 2))))
      ELSE IF c \in singleCharOps
           THEN TokenizeFrom(expr, k + 1, Append(toks, Tok("op", c)))
      ELSE [err |-> Err("UnexpectedCharacter", ""), toks |-> <<>>]

tokenize(expr) == TokenizeFrom(expr, 0, <<>>)

-----------------------------------------------------------------------------
(* Shunting-Yard.                                                          *)

\* the case tokenRightParen: pop to the output until a '(' is on top
RECURSIVE PopToParen(_, _)
PopToParen(output, stack) ==
    IF Len(stack) > 0 /\ stack[Len(stack)].typ # "lparen"
    THEN PopToParen(Append(output, stack[Len(stack)]), SubSeq(stack, 1, Len(stack) - 1))
    ELSE [output |-> output, stack |-> stack]

\* a pop that leaves a stacked operator of the incoming one's precedence
\* where it is
RECURSIVE PopHigherOperators(_, _, _)
PopHigherOperators(output, stack, tk) ==
    IF /\ Len(stack) > 0
       /\ stack[Len(stack)].typ = "op"
       /\ Prec(stack[Len(stack)].value) > Prec(tk.value)
    THEN PopHigherOperators(Append(output, stack[Len(stack)]),
                            SubSeq(stack, 1, Len(stack) - 1), tk)
    ELSE [output |-> output, stack |-> stack]

\* the case tokenOperator: pop every stacked operator whose precedence is
\* not lower than the incoming one's
RECURSIVE PopOperators(_, _, _)
PopOperators(output, stack, tk) ==
    IF /\ Len(stack) > 0
       /\ stack[Len(stack)].typ = "op"
       /\ Prec(stack[Len(stack)].value) >= Prec(tk.value)
    THEN PopOperators(Append(output, stack[Len(stack)]), SubSeq(stack, 1, Len(stack) - 1), tk)
    ELSE [output |-> output, stack |-> stack]

\* a final loop that drops a '(' left on the stack
RECURSIVE DrainLenient(_, _)
DrainLenient(output, stack) ==
    IF Len(stack) = 0 THEN [err |-> NoErr, toks |-> output]
    ELSE IF stack[Len(stack)].typ = "lparen"
         THEN DrainLenient(output, SubSeq(stack, 1, Len(stack) - 1))
    ELSE DrainLenient(Append(output, stack[Len(stack)]), SubSeq(stack, 1, Len(stack) - 1))

\* the final loop: a '(' left on the stack is an error
RECURSIVE Drain(_, _)
Drain(output, stack) ==
    IF Len(stack) = 0 THEN [err |-> NoErr, toks |-> output]
    ELSE IF stack[Len(stack)].typ = "lparen"
         THEN [err |-> Err("MismatchedParentheses", ""), toks |-> <<>>]
    ELSE Drain(Append(output, stack[Len(stack)]), SubSeq(stack, 1, Len(stack) - 1))

RECURSIVE PostfixFrom(_, _, _, _)
PostfixFrom(infix, k, output, stack) ==
    IF k > Len(infix) THEN Drain(output, stack)
    ELSE LET tk == infix[k] IN
      CASE tk.typ \in {"number", "string", "ident", "call"} ->
             PostfixFrom(infix, k + 1, Append(output, tk), stack)
        [] tk.typ = "lparen" ->
             PostfixFrom(infix, k + 1, output, Append(stack, tk))
        [] tk.typ = "rparen" ->
             LET r == PopToParen(output, stack)
             IN  IF Len(r.stack) = 0
                 THEN [err |-> Err("MismatchedParentheses", ""), toks |-> <<>>]
                 ELSE PostfixFrom(infix, k + 1, r.output, SubSeq(r.stack, 1, Len(r.stack) - 1))
        [] tk.typ = "op" ->
             LET r == PopOperators(output, stack, tk)
             IN  PostfixFrom(infix, k + 1, r.output, Append(r.stack, tk))

\* toPostfix: [err, toks]
toPostfix(infix) == PostfixFrom(infix, 1, <<>>, <<>>)

-----------------------------------------------------------------------------
(* The function-call parser.  A functionCall is [Name, Args]; an argument  *)
(* is one of                                                               *)
(*   literalString          [t |-> "literal", sv]                          *)
(*   string (a bareword)    [t |-> "bare", sv]                             *)
(*   int, float64, bool     [t |-> "value", v]                             *)
(*   *functionCall          [t |-> "call", fc]                             *)
(*   *expressionPlaceholder [t |-> "expr", sv]                             *)

Arg(typ, text, v, fc) == [t |-> typ, sv |-> text, v |-> v, fc |-> fc]
NoCall == [Name |-> "", Args |-> <<>>]

RECURSIVE parseFunctionCall(_)
RECURSIVE parseArg(_)
RECURSIVE ParseArgsFrom(_, _, _, _, _, _, _, _)

\* a parseArg that takes every argument, quoted or not, for a bareword
parseArgLooksUpQuoted(str) ==
    LET n == Len(str)
        quoted == /\ n >= 2
                  /\ \/ At(str, 0) = "'" /\ At(str, n - 1) = "'"
                     \/ At(str, 0) = "\"" /\ At(str, n - 1) = "\""
    IN  Arg("bare", IF quoted THEN Slice(str, 1, n - 1) ELSE str, NilV, NoCall)

\* parseArg
parseArg(str) ==
    LET n == Len(str)
        Word ==
            CASE str = "true" -> Arg("value", "", BoolV(TRUE), NoCall)
              [] str = "false" -> Arg("value", "", BoolV(FALSE), NoCall)
              [] OTHER -> IF isExpression(str) THEN Arg("expr", str, NilV, NoCall)
                          ELSE Arg("bare", str, NilV, NoCall)
        Number(ai, pf, other) ==
            IF ai.ok THEN Arg("value", "", ai.v, NoCall)
            ELSE IF pf.ok THEN Arg("value", "", pf.v, NoCall)
            ELSE other
        Call(r) ==
            IF r.err # NoErr THEN Arg("bare", str, NilV, NoCall)
            ELSE Arg("call", "", NilV, r.fc)
    IN  IF n >= 2 /\ At(str, 0) = "'" /\ At(str, n - 1) = "'"
            THEN Arg("literal", Slice(str, 1, n - 1), NilV, NoCall)
        ELSE IF n >= 2 /\ At(str, 0) = "\"" /\ At(str, n - 1) = "\""
            THEN Arg("literal", Slice(str, 1, n - 1), NilV, NoCall)
        ELSE IF IndexByte(str, "(") > 0 /\ At(str, n - 1) = ")"
            THEN Call(parseFunctionCall(str))
        ELSE IF n > 0 /\ IsDigit(At(str, 0)) THEN Number(Atoi(str), ParseFloat(str), Word)
        ELSE Word

\* the argument an argument text adds to args: an empty one adds nothing
AddArg(args, currentArg) ==
    LET argStr == TrimSpace(currentArg)
    IN  IF argStr # "" THEN Append(args, parseArg(argStr)) ELSE args

\* parseArgs from position k: [err, args]
ParseArgsFrom(str, k, args, currentArg, inSingleQuote, inDoubleQuote, parenDepth, escaped) ==
    IF k >= Len(str)
    THEN IF inSingleQuote \/ inDoubleQuote \/ parenDepth # 0
         THEN [err |-> Err("InvalidFunctionSyntax", ""), args |-> <<>>]
         ELSE [err |-> NoErr, args |-> AddArg(args, currentArg)]
    ELSE LET r == At(str, k)
             inQuote == inSingleQuote \/ inDoubleQuote
         IN
      IF escaped
        THEN ParseArgsFrom(str, k + 1, args, currentArg \o r,
                           inSingleQuote, inDoubleQuote, parenDepth, FALSE)
      ELSE IF r = "\\" /\ inQuote
        THEN ParseArgsFrom(str, k + 1, args, currentArg \o r,
                           inSingleQuote, inDoubleQuote, parenDepth, TRUE)
      ELSE IF r = "'" /\ ~inDoubleQuote
        THEN ParseArgsFrom(str, k + 1, args, currentArg \o r,
                           ~inSingleQuote, inDoubleQuote, parenDepth, FALSE)
      ELSE IF r = "\"" /\ ~inSingleQuote
        THEN ParseArgsFrom(str, k + 1, args, currentArg \o r,
                           inSingleQuote, ~inDoubleQuote, parenDepth, FALSE)
      ELSE IF r = "(" /\ ~inQuote
        THEN ParseArgsFrom(str, k + 1, args, currentArg \o r,
                           inSingleQuote, inDoubleQuote, parenDepth + 1, FALSE)
      ELSE IF r = ")" /\ ~inQuote
        THEN ParseArgsFrom(str, k + 1, args, currentArg \o r,
                           inSingleQuote, inDoubleQuote, parenDepth - 1, FALSE)
      ELSE IF r = "," /\ ~inQuote /\ parenDepth = 0
        THEN ParseArgsFrom(str, k + 1, AddArg(args, currentArg), "",
                           inSingleQuote, inDoubleQuote, parenDepth, FALSE)
      ELSE ParseArgsFrom(str, k + 1, args, currentArg \o r,
                         inSingleQuote, inDoubleQuote, parenDepth, FALSE)

\* parseArgs
parseArgs(str) == ParseArgsFrom(str, 0, <<>>, "", FALSE, FALSE, 0, FALSE)

\* parseFunctionCall: [err, fc]
parseFunctionCall(str) ==
    LET tr == TrimSpace(str)
        parenIdx == IndexByte(tr, "(")
        bad == [err |-> Err("InvalidFunctionSyntax", ""), fc |-> NoCall]
        Parsed(name, r) ==
            IF r.err # NoErr THEN [err |-> r.err, fc |-> NoCall]
            ELSE [err |-> NoErr, fc |-> [Name |-> name, Args |-> r.args]]
    IN  IF parenIdx < 1 THEN bad
        ELSE IF ~isValidFunctionName(TrimSpace(Slice(tr, 0, parenIdx))) THEN bad
        ELSE IF ~HasSuffix(tr, ")") THEN bad
        ELSE Parsed(TrimSpace(Slice(tr, 0, parenIdx)),
                    parseArgs(Slice(tr, parenIdx + 1, Len(tr) - 1)))

-----------------------------------------------------------------------------
(* Type conversions of the evaluator.                                      *)

\* isNumeric (the sized integer kinds and float32 are not modelled)
isNumeric(v) == v.k \in {"int", "float"}

\* toFloat64, as the rational [n, d]
toFloat64(v) ==
    CASE v.k \in {"int", "float"} -> [n |-> v.n, d |-> v.d]
      [] v.k = "string" ->
            LET Rat(f) == [n |-> f.n, d |-> f.d]
            IN  Rat(ParseFloat(v.sv).v)
      [] v.k = "bool" -> [n |-> v.n, d |-> 1]
      [] OTHER -> [n |-> 0, d |-> 1]

\* toString
toString(v) ==
    CASE v.k = "string" -> v.sv
      [] v.k = "bytes" -> v.sv
      [] OTHER -> Sprint(v)

\* toBool
toBool(v) ==
    CASE v.k = "bool" -> v.n = 1
      [] v.k \in {"int", "float"} -> v.n # 0
      [] v.k = "string" -> v.sv \notin {"", "0", "false"}
      [] OTHER -> FALSE

\* pow: result starts at 1 and is multiplied by a, int(b) times
RECURSIVE PowLoop(_, _, _)
PowLoop(a, times, acc) ==
    IF times <= 0 THEN FloatV(acc.n, acc.d)
    ELSE PowLoop(a, times - 1, [n |-> acc.n * a.n, d |-> acc.d * a.d])

pow(a, b) == PowLoop(a, Trunc(b.n, b.d), [n |-> 1, d |-> 1])

NumLess(a, b) == a.n * b.d < b.n * a.d
NumEq(a, b) == a.n * b.d = b.n * a.d

\* what an operator application gives: a value, an error, or a panic
OpVal(v) == [v |-> v, err |-> NoErr, crash |-> FALSE]
OpErr(kind) == [v |-> NilV, err |-> Err(kind, ""), crash |-> FALSE]
OpCrash == [v |-> NilV, err |-> NoErr, crash |-> TRUE]

\* the case "%" without its test of a zero divisor
ApplyModuloUnchecked(fa, fb, num) ==
    IF ~num THEN OpErr("NonNumericOperand")
    ELSE IF Trunc(fb.n, fb.d) = 0 THEN OpCrash
    ELSE OpVal(IntV(GoRem(Trunc(fa.n, fa.d), Trunc(fb.n, fb.d))))

\* the case "%" of applyOperator on the float64 fa, fb of its operands: the
\* zero test is made on the float64, the remainder on the truncated ints;
\* Go panics on an integer division by zero
ApplyModulo(fa, fb, num) ==
    IF ~num THEN OpErr("NonNumericOperand")
    ELSE IF fb.n = 0 THEN OpErr("DivisionByZero")
    ELSE IF Trunc(fb.n, fb.d) = 0 THEN OpCrash
    ELSE OpVal(IntV(GoRem(Trunc(fa.n, fa.d), Trunc(fb.n, fb.d))))

\* the case "/" of applyOperator
ApplyDivide(fa, fb, num) ==
    IF ~num THEN OpErr("NonNumericOperand")
    ELSE IF fb.n = 0 THEN OpErr("DivisionByZero")
    ELSE OpVal(FloatV((IF fb.n < 0 THEN -1 ELSE 1) * fa.n * fb.d, fa.d * Abs(fb.n)))

\* applyOperator
applyOperator(op, a, b) ==
    LET Applied(fa, fb, num, sa, sb) ==
            CASE op = "+" ->
                   IF num THEN OpVal(FloatV(fa.n * fb.d + fb.n * fa.d, fa.d * fb.d))
                   ELSE OpVal(StrV(sa \o sb))
              [] op = "-" ->
                   IF ~num THEN OpErr("NonNumericOperand")
                   ELSE OpVal(FloatV(fa.n * fb.d - fb.n * fa.d, fa.d * fb.d))
              [] op = "*" ->
                   IF ~num THEN OpErr("NonNumericOperand")
                   ELSE OpVal(FloatV(fa.n * fb.n, fa.d * fb.d))
              [] op = "/" -> ApplyDivide(fa, fb, num)
              [] op = "%" -> ApplyModulo(fa, fb, num)
              [] op = "**" ->
                   IF ~num THEN OpErr("NonNumericOperand") ELSE OpVal(pow(fa, fb))
              [] op = ">" -> OpVal(BoolV(IF num THEN NumLess(fb, fa) ELSE StrLess(sb, sa)))
              [] op = "<" -> OpVal(BoolV(IF num THEN NumLess(fa, fb) ELSE StrLess(sa, sb)))
              [] op = ">=" -> OpVal(BoolV(IF num THEN ~NumLess(fa, fb) ELSE ~StrLess(sa, sb)))
              [] op = "<=" -> OpVal(BoolV(IF num THEN ~NumLess(fb, fa) ELSE ~StrLess(sb, sa)))
              [] op = "==" -> OpVal(BoolV(IF num THEN NumEq(fa, fb) ELSE sa = sb))
              [] op = "!=" -> OpVal(BoolV(IF num THEN ~NumEq(fa, fb) ELSE sa # sb))
              [] op = "&&" -> OpVal(BoolV(toBool(a) /\ toBool(b)))
              [] op = "||" -> OpVal(BoolV(toBool(a) \/ toBool(b)))
              [] OTHER -> OpErr("UnsupportedOperator")
    IN  Applied(toFloat64(a), toFloat64(b), isNumeric(a) /\ isNumeric(b),
                toString(a), toString(b))

-----------------------------------------------------------------------------
(* Bindings (Map) and the Go functions bound in them.                      *)
(* A Map is [isNil, kv]: a nil Map reads as empty.  A parameter or result  *)
(* type is a value kind, "any" (interface{}) or "error".                   *)

MapOf(kv) == [isNil |-> FALSE, kv |-> kv]
NilMap == [isNil |-> TRUE, kv |-> <<>>]
Has(mp, key) == key \in DOMAIN mp.kv

\* the Go functions of the model: the shapes the repository's tests bind
FuncTable ==
    [ add      |-> [in |-> <<"int", "int">>, variadic |-> FALSE, out |-> <<"int">>],
      upper    |-> [in |-> <<"string">>, variadic |-> FALSE, out |-> <<"string">>],
      join     |-> [in |-> <<"string", "string">>, variadic |-> TRUE, out |-> <<"string">>],
      validate |-> [in |-> <<"string">>, variadic |-> FALSE, out |-> <<"string", "error">>],
      rhs      |-> [in |-> <<>>, variadic |-> FALSE, out |-> <<"bool">>],
      boom     |-> [in |-> <<"string">>, variadic |-> FALSE, out |-> <<"string">>],
      noop     |-> [in |-> <<>>, variadic |-> FALSE, out |-> <<>>],
      divmod   |-> [in |-> <<"int", "int">>, variadic |-> FALSE, out |-> <<"int", "int">>],
      emit     |-> [in |-> <<"writer", "string">>, variadic |-> FALSE, out |-> <<"int", "error">>] ]

RECURSIVE JoinStrings(_, _, _)
JoinStrings(items, k, sep) ==
    IF k > Len(items) THEN ""
    ELSE items[k].sv \o (IF k < Len(items) THEN sep ELSE "") \o JoinStrings(items, k + 1, sep)

\* the body of each function, applied to arguments of its parameter types:
\* [panic, out]
Invoke(fn, args) ==
    CASE fn = "add" -> [panic |-> FALSE, out |-> <<IntV(args[1].n + args[2].n)>>]
      [] fn = "upper" -> [panic |-> FALSE, out |-> <<StrV(ToUpper(args[1].sv))>>]
      [] fn = "join" ->
            [panic |-> FALSE,
             out |-> <<StrV(JoinStrings(SubSeq(args, 2, Len(args)), 1, args[1].sv))>>]
      [] fn = "validate" ->
            IF args[1].sv = "invalid"
            THEN [panic |-> FALSE, out |-> <<StrV(""), ErrorV("validation failed")>>]
            ELSE [panic |-> FALSE, out |-> <<StrV("valid: " \o args[1].sv), NilV>>]
      [] fn = "rhs" -> [panic |-> FALSE, out |-> <<BoolV(TRUE)>>]
      [] fn = "boom" -> [panic |-> TRUE, out |-> <<>>]
      [] fn = "noop" -> [panic |-> FALSE, out |-> <<>>]
      [] fn = "emit" -> [panic |-> FALSE, out |-> <<IntV(0), NilV>>]
      [] fn = "divmod" ->
            IF args[2].n = 0 THEN [panic |-> TRUE, out |-> <<>>]
            ELSE [panic |-> FALSE,
                  out |-> <<IntV(Trunc(args[1].n, args[2].n)),
                            IntV(GoRem(args[1].n, args[2].n))>>]

\* reflect: Type.AssignableTo for an argument value and a parameter type
Assignable(v, ty) == v.k # "nil" /\ (ty = "any" \/ v.k = ty)

\* the parameter type argument k is checked against
ParamType(desc, k) ==
    IF desc.variadic /\ k >= Len(desc.in) THEN desc.in[Len(desc.in)] ELSE desc.in[k]

\* isValidArgCount
isValidArgCount(desc, argCount) ==
    IF desc.variadic THEN argCount >= Len(desc.in) - 1 ELSE Len(desc.in) = argCount

\* reflect.Value.Call: panics on a wrong argument count, on a zero Value
\* argument and on an argument that is not assignable to its parameter;
\* otherwise the function runs: [panic, invoked, out]
ReflectCall(fn, args) ==
    LET Fits(desc) ==
            /\ isValidArgCount(desc, Len(args))
            /\ \A k \in 1..Len(args) : Assignable(args[k], ParamType(desc, k))
        Ran(r) == [panic |-> r.panic, invoked |-> TRUE, out |-> r.out]
    IN  IF ~Fits(FuncTable[fn]) THEN [panic |-> TRUE, invoked |-> FALSE, out |-> <<>>]
        ELSE Ran(Invoke(fn, args))

\* reflect.Value.IsNil panics unless the value's kind is chan, func,
\* interface, map, pointer or slice
IsNilPanics(ty) == ty \notin {"any", "error", "bytes", "func"}

-----------------------------------------------------------------------------
(* The dispatcher (functionCall.execute) and the evaluator.                *)
(* The evaluation context st = [calls, cache] carries what an evaluation   *)
(* changes outside its result: the functions it invoked and exprCache.     *)
(* An evaluation gives [v, err, crash, st]; crash is a panic that nothing  *)
(* recovered.                                                              *)

Ctx(calls_, cache_) == [calls |-> calls_, cache |-> cache_]
Ok(v, st) == [v |-> v, err |-> NoErr, crash |-> FALSE, st |-> st]
Fail(e, st) == [v |-> NilV, err |-> e, crash |-> FALSE, st |-> st]
Crash(st) == [v |-> NilV, err |-> NoErr, crash |-> TRUE, st |-> st]
Invoked(st, fn) == Ctx(Append(st.calls, fn), st.cache)

\* val.(func(string) string)
IsStringFunc(v) ==
    /\ v.k = "func"
    /\ FuncTable[v.sv] = [in |-> <<"string">>, variadic |-> FALSE, out |-> <<"string">>]

\* a result switch that returns the first result whatever the second is
CallAndInterpretKeepFirst(name, fn, mat) ==
    LET Interpret(desc, r, st2) ==
            IF ~desc.variadic /\ Len(mat.args) # Len(desc.in)
                THEN Fail(Err("InvalidArgumentCount", ""), mat.st)
            ELSE IF r.panic THEN Fail(Err("Panic", name), st2)
            ELSE IF Len(r.out) = 0 THEN Ok(NilV, st2)
            ELSE Ok(r.out[1], st2)
        Called(r) ==
            Interpret(FuncTable[fn], r, IF r.invoked THEN Invoked(mat.st, fn) ELSE mat.st)
    IN  IF mat.crash THEN Crash(mat.st)
        ELSE IF mat.err # NoErr THEN Fail(mat.err, mat.st)
        ELSE Called(ReflectCall(fn, mat.args))

\* the call of execute under its recover, and what execute makes of the
\* results
CallAndInterpret(name, fn, mat) ==
    LET Interpret(desc, r, st2) ==
            IF ~desc.variadic /\ Len(mat.args) # Len(desc.in)
                THEN Fail(Err("InvalidArgumentCount", ""), mat.st)
            ELSE IF r.panic THEN Fail(Err("Panic", name), st2)
            ELSE IF Len(r.out) = 0 THEN Ok(NilV, st2)
            ELSE IF Len(r.out) = 1 THEN Ok(r.out[1], st2)
            ELSE IF IsNilPanics(desc.out[2]) THEN Crash(st2)
            ELSE IF r.out[2].k # "nil" /\ desc.out[2] = "error"
                THEN Fail(Err("FunctionError", r.out[2].sv), st2)
            ELSE Ok(r.out[1], st2)
        Called(r) ==
            Interpret(FuncTable[fn], r, IF r.invoked THEN Invoked(mat.st, fn) ELSE mat.st)
    IN  IF mat.crash THEN Crash(mat.st)
        ELSE IF mat.err # NoErr THEN Fail(mat.err, mat.st)
        ELSE Called(ReflectCall(fn, mat.args))

\* the stack entry of a tokenString: the quotes go, and with a backslash
\* inside the two escapes are replaced
Unquote(value) ==
    LET Inner(str) ==
            IF IndexByte(str, "\\") # -1
            THEN ReplaceAll(ReplaceAll(str, "\\\"", "\""), "\\'", "'")
            ELSE str
    IN  IF Len(value) < 2 THEN value ELSE Inner(Slice(value, 1, Len(value) - 1))

RECURSIVE execute(_, _, _, _)
RECURSIVE Materialize(_, _, _, _, _, _)
RECURSIVE evalExpression(_, _, _)
RECURSIVE EvalPostfixFrom(_, _, _, _, _)

\* the loop of execute over fc.Args from argument k: [args, err, crash, st]
Materialize(fargs, k, out, funcs, dat, st) ==
    IF k > Len(fargs) THEN [args |-> out, err |-> NoErr, crash |-> FALSE, st |-> st]
    ELSE LET arg == fargs[k]
             Add(v, st2) == Materialize(fargs, k + 1, Append(out, v), funcs, dat, st2)
             Nested(r) ==
                 IF r.crash \/ r.err # NoErr
                 THEN [args |-> <<>>, err |-> r.err, crash |-> r.crash, st |-> r.st]
                 ELSE Add(r.v, r.st)
         IN  CASE arg.t = "literal" -> Add(StrV(arg.sv), st)
               [] arg.t = "bare" ->
                    IF ~dat.isNil /\ Has(dat, arg.sv) THEN Add(dat.kv[arg.sv], st)
                    ELSE IF ~dat.isNil /\ isLikelyVariable(arg.sv)
                      THEN [args |-> <<>>, err |-> Err("VariableNotFound", arg.sv),
                            crash |-> FALSE, st |-> st]
                    ELSE Add(StrV(arg.sv), st)
               [] arg.t = "value" -> Add(arg.v, st)
               [] arg.t = "call" -> Nested(execute(arg.fc, funcs, dat, st))
               [] arg.t = "expr" -> Nested(evalExpression(arg.sv, dat, st))

\* functionCall.execute: reflect.TypeOf(nil) is a nil Type, and Kind() of
\* it a nil dereference outside the recover
execute(fc, funcs, dat, st) ==
    IF ~Has(funcs, fc.Name) THEN Fail(Err("FunctionNotFound", fc.Name), st)
    ELSE IF funcs.kv[fc.Name].k = "nil" THEN Crash(st)
    ELSE IF funcs.kv[fc.Name].k # "func" THEN Fail(Err("NotAFunction", fc.Name), st)
    ELSE CallAndInterpret(fc.Name, funcs.kv[fc.Name].sv,
                          Materialize(fc.Args, 1, <<>>, funcs, dat, st))

\* fnCall.execute(data, data) on what parseFunctionCall gave: the error of
\* the parse is returned before anything is executed
ExecuteParsed(p, dat, st) ==
    IF p.err # NoErr THEN Fail(p.err, st) ELSE execute(p.fc, dat, dat, st)

\* evaluatePostfix from token k with the given stack
EvalPostfixFrom(postfix, k, stack, dat, st) ==
    IF k > Len(postfix)
    THEN IF Len(stack) # 1 THEN Fail(Err("InvalidExpression", ""), st)
         ELSE Ok(stack[1], st)
    ELSE LET tk == postfix[k]
             top == Len(stack)
             Go(stack2, st2) == EvalPostfixFrom(postfix, k + 1, stack2, dat, st2)
             Number(r) ==
                 IF ~r.ok THEN Fail(Err("InvalidNumberFormat", ""), st)
                 ELSE Go(Append(stack, r.v), st)
             Executed(r) ==
                 IF r.crash \/ r.err # NoErr THEN r ELSE Go(Append(stack, r.v), r.st)
             Piped(fn, r) ==
                 IF r.panic THEN Crash(Invoked(st, fn))
                 ELSE Go([stack EXCEPT ![top] = r.out[1]], Invoked(st, fn))
             Operated(r) ==
                 IF r.crash THEN Crash(st)
                 ELSE IF r.err # NoErr THEN Fail(r.err, st)
                 ELSE Go(Append(SubSeq(stack, 1, top - 2), r.v), st)
         IN  CASE tk.typ = "number" ->
                    Number(IF IndexByte(tk.value, ".") # -1 THEN ParseFloat(tk.value)
                           ELSE Atoi(tk.value))
               [] tk.typ = "string" -> Go(Append(stack, StrV(Unquote(tk.value))), st)
               [] tk.typ = "call" ->
                    Executed(ExecuteParsed(parseFunctionCall(tk.value), dat, st))
               [] tk.typ = "ident" ->
                    IF ~Has(dat, tk.value)
                    THEN IF isLikelyVariable(tk.value)
                         THEN Fail(Err("VariableNotFound", tk.value), st)
                         ELSE Go(Append(stack, StrV(tk.value)), st)
                    ELSE IF /\ IsStringFunc(dat.kv[tk.value])
                            /\ top > 0
                            /\ stack[top].k = "string"
                    THEN Piped(dat.kv[tk.value].sv, Invoke(dat.kv[tk.value].sv, <<stack[top]>>))
                    ELSE Go(Append(stack, dat.kv[tk.value]), st)
               [] tk.typ = "op" ->
                    IF top < 2 THEN Fail(Err("NotEnoughOperands", ""), st)
                    ELSE Operated(applyOperator(tk.value, stack[top - 1], stack[top]))
               [] OTHER -> Go(stack, st)

\* evaluatePostfix
evaluatePostfix(postfix, dat, st) == EvalPostfixFrom(postfix, 1, <<>>, dat, st)

\* a store that leaves every entry with the postfix it is given
CachePutOther(cache_, expression, postfix) ==
    [e \in DOMAIN cache_ \cup {expression} |-> postfix]

\* a store of the tokens of the text as tokenize gives them, in infix order
CachePutInfix(cache_, expression, postfix) ==
    [e \in DOMAIN cache_ \cup {expression} |->
        IF e = expression THEN tokenize(expression).toks ELSE cache_[e]]

\* exprCache.postfix[expression] = postfixTokens
CachePut(cache_, expression, postfix) ==
    [e \in DOMAIN cache_ \cup {expression} |->
        IF e = expression THEN postfix ELSE cache_[e]]

\* evalExpression
evalExpression(expression, dat, st) ==
    LET Tokenized(tr) ==
            IF tr.err # NoErr THEN [err |-> tr.err, toks |-> <<>>] ELSE toPostfix(tr.toks)
        Evaluated(pr) ==
            IF pr.err # NoErr THEN Fail(pr.err, st)
            ELSE evaluatePostfix(pr.toks, dat,
                                 Ctx(st.calls, CachePut(st.cache, expression, pr.toks)))
    IN  IF isFunctionCall(expression)
        THEN ExecuteParsed(parseFunctionCall(expression), dat, st)
        ELSE Evaluated(IF expression \in DOMAIN st.cache
                       THEN [err |-> NoErr, toks |-> st.cache[expression]]
                       ELSE Tokenized(tokenize(expression)))

-----------------------------------------------------------------------------
(* Tag resolution (processTag, processTagStd).                             *)
(* A resolution gives [wrote, err, fail, crash, st, path]: the bytes it    *)
(* wrote, the error it returned, the failure it met (processTagStd meets   *)
(* failures it does not return), and the branch taken: "call", "expr" or   *)
(* "var".  The sink never refuses a write.                                 *)

Resolved(wrote, n, e, fail, crash, st, path) ==
    [wrote |-> wrote, n |-> n, err |-> e, fail |-> fail, crash |-> crash, st |-> st,
     path |-> path]

\* what the result switch writes for a value: nothing for nil, the bytes
\* of a []byte or string, fmt.Sprintf("%v") of anything else
RenderValue(v) ==
    CASE v.k = "nil" -> ""
      [] v.k \in {"bytes", "string"} -> v.sv
      [] OTHER -> Sprint(v)

\* value.(func(io.Writer, string) (int, error))
IsTagFunc(v) ==
    /\ v.k = "func"
    /\ FuncTable[v.sv] = [in |-> <<"writer", "string">>, variadic |-> FALSE,
                          out |-> <<"int", "error">>]

\* what the TagFunc of the model writes: the tag it is called for
TagFuncWrite(tag) == tag

\* the count the TagFunc of the model returns: that of its one Write
TagFuncCount(tag) == Len(tag)

\* tempFuncs: the non-nil entries of m of kind Func
tempFuncs(mp) ==
    MapOf([key \in {x \in DOMAIN mp.kv : mp.kv[x].k = "func"} |-> mp.kv[key]])

\* the last branch of processTag and processTagStd for a bound name
WriteBound(v, tag) == IF IsTagFunc(v) THEN TagFuncWrite(tag) ELSE RenderValue(v)

\* the count that branch returns: the TagFunc's, or that of the Write
BoundCount(v, tag) == IF IsTagFunc(v) THEN TagFuncCount(tag) ELSE Len(RenderValue(v))

\* a preserveTag without its last Write
preserveTagNoEnd(tag, stag, etag) == stag \o tag

\* preserveTag
preserveTag(tag, stag, etag) == stag \o tag \o etag

\* a count that is the result of preserveTag: that of its last Write
PreservedCountLastWrite(tag, stag, etag) == Len(etag)

\* the count processTagStd returns after preserveTag
PreservedCount(tag, stag, etag) == Len(stag) + Len(tag) + Len(etag)

\* the function-call branch of processTag and processTagStd, from the
\* parsed call p to the result of execute: [v, err, crash, st]
ExecuteTagCall(p, mp, st) ==
    IF p.err # NoErr THEN Fail(p.err, st)
    ELSE IF mp.isNil THEN Fail(Err("NoFunctionsMap", ""), st)
    ELSE IF ~Has(tempFuncs(mp), p.fc.Name) THEN Fail(Err("FunctionNotFound", p.fc.Name), st)
    ELSE IF ~isValidArgCount(FuncTable[mp.kv[p.fc.Name].sv], Len(p.fc.Args))
        THEN Fail(Err("InvalidArgumentCount", p.fc.Name), st)
    ELSE execute(p.fc, tempFuncs(mp), mp, st)

\* what processTag does with the result r of a call or of an expression
Rendered(r, path) ==
    IF r.crash THEN Resolved("", 0, NoErr, NoErr, TRUE, r.st, path)
    ELSE IF r.err # NoErr THEN Resolved("", 0, r.err, r.err, FALSE, r.st, path)
    ELSE Resolved(RenderValue(r.v), Len(RenderValue(r.v)), NoErr, NoErr, FALSE, r.st, path)

\* processTag
processTag(tag, mp, st) ==
    IF isFunctionCall(tag)
        THEN Rendered(ExecuteTagCall(parseFunctionCall(tag), mp, st), "call")
    ELSE IF isExpression(tag) THEN Rendered(evalExpression(tag, mp, st), "expr")
    ELSE IF ~Has(mp, tag)
        THEN Resolved("", 0, Err("VariableNotFound", tag), Err("VariableNotFound", tag),
                      FALSE, st, "var")
    ELSE Resolved(WriteBound(mp.kv[tag], tag), BoundCount(mp.kv[tag], tag), NoErr, NoErr,
                  FALSE, st, "var")

\* a processTagStd that takes a name bound to nil for an unknown placeholder
\* and keeps it
processTagStdKeepsNil(tag, stag, etag, mp, st) ==
    LET Kept(r, path) ==
            IF r.crash THEN Resolved("", 0, NoErr, NoErr, TRUE, r.st, path)
            ELSE IF r.err # NoErr
                THEN Resolved(preserveTag(tag, stag, etag), PreservedCount(tag, stag, etag),
                              NoErr, r.err, FALSE, r.st, path)
            ELSE Resolved(RenderValue(r.v), Len(RenderValue(r.v)), NoErr, NoErr, FALSE,
                          r.st, path)
    IN  IF isFunctionCall(tag)
            THEN Kept(ExecuteTagCall(parseFunctionCall(tag), mp, st), "call")
        ELSE IF isExpression(tag) THEN Kept(evalExpression(tag, mp, st), "expr")
        ELSE IF ~Has(mp, tag)
            THEN Resolved(preserveTag(tag, stag, etag), PreservedCount(tag, stag, etag),
                          NoErr, Err("VariableNotFound", tag), FALSE, st, "var")
        ELSE IF mp.kv[tag].k = "nil"
            THEN Resolved(preserveTag(tag, stag, etag), PreservedCount(tag, stag, etag),
                          NoErr, NoErr, FALSE, st, "var")
        ELSE Resolved(WriteBound(mp.kv[tag], tag), BoundCount(mp.kv[tag], tag), NoErr, NoErr,
                      FALSE, st, "var")

\* what processTagStd does with the result r of a call or of an expression
RenderedStd(r, path, tag, stag, etag) ==
    IF r.crash THEN Resolved("", 0, NoErr, NoErr, TRUE, r.st, path)
    ELSE IF r.err # NoErr
        THEN Resolved(preserveTag(tag, stag, etag), PreservedCount(tag, stag, etag),
                      NoErr, r.err, FALSE, r.st, path)
    ELSE Resolved(RenderValue(r.v), Len(RenderValue(r.v)), NoErr, NoErr, FALSE, r.st, path)

\* processTagStd
processTagStd(tag, stag, etag, mp, st) ==
    IF isFunctionCall(tag)
        THEN RenderedStd(ExecuteTagCall(parseFunctionCall(tag), mp, st), "call",
                         tag, stag, etag)
    ELSE IF isExpression(tag)
        THEN RenderedStd(evalExpression(tag, mp, st), "expr", tag, stag, etag)
    ELSE IF ~Has(mp, tag)
        THEN Resolved(preserveTag(tag, stag, etag), PreservedCount(tag, stag, etag),
                      NoErr, Err("VariableNotFound", tag), FALSE, st, "var")
    ELSE Resolved(WriteBound(mp.kv[tag], tag), BoundCount(mp.kv[tag], tag), NoErr, NoErr,
                  FALSE, st, "var")

\* the test of both strict loops on a failed tag: the error is returned
\* unless the tag is no function call and the error is errVariableNotFound
Propagates(tag, e) == isFunctionCall(tag) \/ ~IsVariableNotFound(e)

-----------------------------------------------------------------------------
(* Template.Reset: the texts and tags of a template.                       *)

Template(template, stag, etag, texts, tags, e) ==
    [template |-> template, startTag |-> stag, endTag |-> etag,
     texts |-> texts, tags |-> tags, err |-> e]

\* the zero Template
ZeroTemplate == Template("", "", "", <<>>, <<>>, NoErr)

\* a loop of Reset that, like the loop of Execute, takes a start tag without
\* an end tag for text
RECURSIVE ResetFromLenient(_, _, _, _, _, _)
ResetFromLenient(template, stag, etag, str, texts, tags) ==
    LET n == Index(str, stag)
        after == From(str, n + Len(stag))
        m2 == Index(after, etag)
    IN  IF n < 0 \/ m2 < 0 THEN Template(template, stag, etag, Append(texts, str), tags, NoErr)
        ELSE ResetFromLenient(template, stag, etag, From(after, m2 + Len(etag)),
                              Append(texts, Slice(str, 0, n)), Append(tags, Slice(after, 0, m2)))

\* a loop that looks for the end tag before it appends the text in front
\* of the start tag
RECURSIVE ResetFromTagFirst(_, _, _, _, _, _)
ResetFromTagFirst(template, stag, etag, str, texts, tags) ==
    LET n == Index(str, stag)
        after == From(str, n + Len(stag))
        m2 == Index(after, etag)
    IN  IF n < 0 THEN Template(template, stag, etag, Append(texts, str), tags, NoErr)
        ELSE IF m2 < 0
            THEN Template(template, stag, etag, texts, tags, Err("CannotFindEndTag", ""))
        ELSE ResetFromTagFirst(template, stag, etag, From(after, m2 + Len(etag)),
                               Append(texts, Slice(str, 0, n)),
                               Append(tags, Slice(after, 0, m2)))

\* the loop of Reset over the rest str of the template
RECURSIVE ResetFrom(_, _, _, _, _, _)
ResetFrom(template, stag, etag, str, texts, tags) ==
    LET n == Index(str, stag)
        after == From(str, n + Len(stag))
        m2 == Index(after, etag)
    IN  IF n < 0 THEN Template(template, stag, etag, Append(texts, str), tags, NoErr)
        ELSE IF m2 < 0
            THEN Template(template, stag, etag, Append(texts, Slice(str, 0, n)), tags,
                          Err("CannotFindEndTag", ""))
        ELSE ResetFrom(template, stag, etag, From(after, m2 + Len(etag)),
                       Append(texts, Slice(str, 0, n)), Append(tags, Slice(after, 0, m2)))

\* Reset with non-empty startTag and endTag (an empty one panics)
Reset(template, stag, etag) ==
    IF Count(template, stag) = 0 THEN Template(template, stag, etag, <<>>, <<>>, NoErr)
    ELSE ResetFrom(template, stag, etag, template, <<>>, <<>>)

-----------------------------------------------------------------------------
(* Template.Validate.                                                      *)

\* no Validate of t since t was reset
NoValidate == [done |-> FALSE, m |-> NilMap, err |-> NoErr]

\* the function-call branch of the loop of Validate for the parsed call p
\* that accepts every binding of the name, a function or not
ValidateCallAnyBinding(tag, p, mp) ==
    IF p.err # NoErr THEN Err("InvalidFunctionCall", tag)
    ELSE IF ~Has(mp, p.fc.Name) THEN Err("UnresolvedFunction", tag)
    ELSE NoErr

\* the function-call branch of the loop of Validate for the parsed call p:
\* the name has to be bound to a non-nil value of kind Func
ValidateCall(tag, p, mp) ==
    IF p.err # NoErr THEN Err("InvalidFunctionCall", tag)
    ELSE IF ~(Has(mp, p.fc.Name) /\ mp.kv[p.fc.Name].k = "func")
        THEN Err("UnresolvedFunction", tag)
    ELSE NoErr

\* what the loop of Validate finds for one tag (NoErr: continue)
ValidateTag(tag, mp) ==
    IF isFunctionCall(tag) THEN ValidateCall(tag, parseFunctionCall(tag), mp)
    ELSE IF isExpression(tag) THEN NoErr
    ELSE IF ~Has(mp, tag) THEN Err("UnresolvedTag", tag)
    ELSE NoErr

\* the loop of Validate from tag k on
RECURSIVE ValidateFrom(_, _, _)
ValidateNext(e, tags, k, mp) == IF e # NoErr THEN e ELSE ValidateFrom(tags, k + 1, mp)

ValidateFrom(tags, k, mp) ==
    IF k > Len(tags) THEN NoErr ELSE ValidateNext(ValidateTag(tags[k], mp), tags, k, mp)

\* Template.Validate: the error it returns (NoErr when nil)
Validate(t, mp) ==
    IF mp.isNil
        THEN IF Len(t.tags) > 0 THEN Err("UnresolvedTagNilMap", t.tags[1]) ELSE NoErr
    ELSE ValidateFrom(t.tags, 1, mp)

-----------------------------------------------------------------------------
(* Eval and convertToType; T is "string", "int", "float" (float64) or      *)
(* "bool".                                                                 *)

\* strconv.ParseInt(v, 10, 64)
ParseInt(str) == Atoi(str)

\* convertToType: [v, err]
convertToType(typ, val) ==
    LET good(v) == [v |-> v, err |-> NoErr]
        bad == [v |-> NilV, err |-> Err("CannotConvert", "")]
        Parsed(r) == IF r.ok THEN good(r.v) ELSE bad
    IN  IF val.k = typ THEN good(val)
        ELSE CASE typ = "string" -> good(StrV(toString(val)))
               [] typ = "int" ->
                    CASE val.k = "float" -> good(IntV(Trunc(val.n, val.d)))
                      [] val.k = "string" -> Parsed(ParseInt(val.sv))
                      [] val.k = "bool" -> good(IntV(val.n))
                      [] OTHER -> bad
               [] typ = "float" ->
                    CASE val.k = "int" -> good(FloatV(val.n, 1))
                      [] val.k = "string" -> Parsed(ParseFloat(val.sv))
                      [] val.k = "bool" -> good(FloatV(val.n, 1))
                      [] OTHER -> bad
               [] typ = "bool" -> good(BoolV(toBool(val)))

\* the zero value of T
Zero(typ) ==
    CASE typ = "string" -> StrV("")
      [] typ = "int" -> IntV(0)
      [] typ = "float" -> FloatV(0, 1)
      [] typ = "bool" -> BoolV(FALSE)

\* Eval[T]: [v, err, crash, st]
Eval(typ, expression, mp, st) ==
    LET Converted(cv, st2) ==
            [v |-> IF cv.err # NoErr THEN Zero(typ) ELSE cv.v,
             err |-> cv.err, crash |-> FALSE, st |-> st2]
        Result(r) ==
            IF r.crash THEN Crash(r.st)
            ELSE IF r.err # NoErr
                THEN [v |-> Zero(typ), err |-> r.err, crash |-> FALSE, st |-> r.st]
            ELSE Converted(convertToType(typ, r.v), r.st)
    IN  Result(IF isFunctionCall(expression)
                   THEN ExecuteParsed(parseFunctionCall(expression), mp, st)
               ELSE IF isExpression(expression) THEN evalExpression(expression, mp, st)
               ELSE IF Has(mp, expression) THEN Ok(mp.kv[expression], st)
               ELSE Fail(Err("VariableNotFound", expression), st))

-----------------------------------------------------------------------------
(* The operations.                                                         *)

\* no goroutine
None == 0

\* the goroutines that call methods of one Template
NumProcs == 2

Procs == 1 .. NumProcs

\* a goroutine that is in no call
IdleProc ==
    [pc |-> "idle", op |-> "", data |-> NilMap, idx |-> 0, sink |-> "", nn |-> 0,
     err |-> NoErr, crashed |-> FALSE, toks |-> <<>>]

NoRes == [typ |-> "", expression |-> "", v |-> NilV, err |-> NoErr]

\* a call of op with a template text and its delimiters
Called(op, template, stag, etag) ==
    [op |-> op, template |-> template, startTag |-> stag, endTag |-> etag]

\* one entry of tagLog
Logged(tag, r, before, st) ==
    [tag |-> tag, path |-> r.path, fail |-> r.fail, wrote |-> r.wrote, before |-> before,
     calls |-> SubSeq(r.st.calls, Len(st.calls) + 1, Len(r.st.calls))]

\* the entry of Execute and ExecuteStd: s, a, b, nn of a new call
Enter(md, template, stag, etag, mp) ==
    /\ pc = "idle"
    /\ pc' = "exec"
    /\ mode' = md
    /\ data' = mp
    /\ rest' = template
    /\ startTag' = stag
    /\ endTag' = etag
    /\ sink' = ""
    /\ nn' = 0
    /\ tagLog' = <<>>
    /\ last' = Called(IF md = "strict" THEN "Execute" ELSE "ExecuteStd", template, stag, etag)
    /\ UNCHANGED <<procs, mu>>
    /\ UNCHANGED <<tpl, idx, rerr, crashed, calls, exprCache, res, vres>>

\* the return of a render: everything written, the count and the error
Return(out, count, e) ==
    /\ pc' = "done"
    /\ sink' = out
    /\ nn' = count
    /\ rerr' = e
    /\ crashed' = FALSE

\* a panic leaves the render: what was written stays in the sink
Panic(out) ==
    /\ pc' = "done"
    /\ sink' = out
    /\ crashed' = TRUE
    /\ UNCHANGED <<nn, rerr>>

\* what one pass of a render loop does with the tag after the literal
\* lit: strict returns the error of processTag unless it is swallowed,
\* tolerant returns the error of processTagStd
TagPass(md, tag, lit, stag, etag) ==
    LET Done(r, st, before) ==
            /\ calls' = r.st.calls
            /\ exprCache' = r.st.cache
            /\ IF r.crash
               THEN Panic(before) /\ UNCHANGED tagLog
               ELSE /\ tagLog' = Append(tagLog, Logged(tag, r, before, st))
                    /\ IF r.err # NoErr /\ (md = "std" \/ Propagates(tag, r.err))
                       THEN Return(before \o r.wrote, nn + Len(lit) + r.n, r.err)
                       ELSE /\ sink' = before \o r.wrote
                            /\ nn' = nn + Len(lit) + r.n
                            /\ UNCHANGED <<pc, rerr, crashed>>
    IN  Done(IF md = "strict" THEN processTag(tag, data, Ctx(calls, exprCache))
             ELSE processTagStd(tag, stag, etag, data, Ctx(calls, exprCache)),
             Ctx(calls, exprCache), sink \o lit)

\* one pass of the loop of Execute / ExecuteStd, or the write after it
OneShotPass(md) ==
    LET n == Index(rest, startTag)
        after == From(rest, n + Len(startTag))
        m2 == Index(after, endTag)
    IN  /\ pc = "exec"
        /\ mode = md
        /\ UNCHANGED <<procs, mu>>
        /\ UNCHANGED <<mode, data, startTag, endTag, tpl, idx, res, vres, last>>
        /\ IF n < 0
           THEN /\ Return(sink \o rest, nn + Len(rest), NoErr)
                /\ rest' = ""
                /\ UNCHANGED <<calls, exprCache, tagLog>>
           ELSE IF m2 < 0
           THEN /\ Return(sink \o Slice(rest, 0, n) \o startTag \o after,
                          nn + n + Len(startTag) + Len(after), NoErr)
                /\ rest' = after
                /\ UNCHANGED <<calls, exprCache, tagLog>>
           ELSE /\ TagPass(md, Slice(after, 0, m2), Slice(rest, 0, n), startTag, endTag)
                /\ rest' = IF pc' = "done" THEN after ELSE From(after, m2 + Len(endTag))

\* one pass of the loop of Template.Execute / Template.ExecuteStd, or the
\* write after it
CompiledPass(md) ==
    LET n == Len(tpl.texts) - 1
    IN  /\ pc = "texec"
        /\ mode = md
        /\ UNCHANGED <<procs, mu>>
        /\ UNCHANGED <<mode, data, rest, startTag, endTag, tpl, res, vres, last>>
        /\ IF n = -1
           THEN /\ Return(sink \o tpl.template, Len(tpl.template), NoErr)
                /\ UNCHANGED <<idx, calls, exprCache, tagLog>>
           ELSE IF idx < n
           THEN /\ TagPass(md, tpl.tags[idx + 1], tpl.texts[idx + 1], tpl.startTag, tpl.endTag)
                /\ idx' = IF pc' = "done" THEN idx ELSE idx + 1
           ELSE /\ Return(sink \o tpl.texts[n + 1], nn + Len(tpl.texts[n + 1]), NoErr)
                /\ UNCHANGED <<idx, calls, exprCache, tagLog>>

\* Execute: the call
CallExecute(template, stag, etag, mp) == Enter("strict", template, stag, etag, mp)

\* ExecuteStd: the call
CallExecuteStd(template, stag, etag, mp) == Enter("std", template, stag, etag, mp)

\* Execute: one pass of its loop
ExecuteLoop == OneShotPass("strict")

\* ExecuteStd: one pass of its loop
ExecuteStdLoop == OneShotPass("std")

\* NewTemplate: Reset of a new Template; the Template is returned when
\* Reset gave no error, nil and the error otherwise
NewTemplate(template, stag, etag) ==
    LET Made(t) ==
            /\ pc' = IF t.err = NoErr THEN "ready" ELSE "done"
            /\ tpl' = IF t.err = NoErr THEN t ELSE tpl
            /\ rerr' = t.err
    IN  /\ pc = "idle"
        /\ Made(Reset(template, stag, etag))
        /\ last' = Called("NewTemplate", template, stag, etag)
        /\ UNCHANGED <<procs, mu>>
        /\ UNCHANGED <<mode, data, rest, startTag, endTag, idx, sink, nn, crashed,
                       calls, exprCache, res, tagLog, vres>>

\* New: NewTemplate, and a panic with its error
New(template, stag, etag) ==
    LET Made(t) ==
            /\ pc' = IF t.err = NoErr THEN "ready" ELSE "done"
            /\ tpl' = IF t.err = NoErr THEN t ELSE tpl
            /\ crashed' = (t.err # NoErr)
    IN  /\ pc = "idle"
        /\ Made(Reset(template, stag, etag))
        /\ last' = Called("New", template, stag, etag)
        /\ UNCHANGED <<procs, mu>>
        /\ UNCHANGED <<mode, data, rest, startTag, endTag, idx, sink, nn, rerr,
                       calls, exprCache, res, tagLog, vres>>

\* t.Reset on a Template the caller holds: t is overwritten whether or not
\* an error is returned, and stays in the caller's hands
TemplateReset(template, stag, etag) ==
    /\ pc = "ready"
    /\ tpl' = Reset(template, stag, etag)
    /\ rerr' = tpl'.err
    /\ vres' = NoValidate
    /\ last' = Called("Reset", template, stag, etag)
    /\ UNCHANGED <<procs, mu>>
    /\ UNCHANGED <<pc, mode, data, rest, startTag, endTag, idx, sink, nn, crashed,
                   calls, exprCache, res, tagLog>>

\* t.Validate(m)
CallTemplateValidate(mp) ==
    /\ pc = "ready"
    /\ vres' = [done |-> TRUE, m |-> mp, err |-> Validate(tpl, mp)]
    /\ UNCHANGED <<procs, mu>>
    /\ UNCHANGED <<pc, mode, data, rest, startTag, endTag, tpl, idx, sink, nn, rerr,
                   crashed, calls, exprCache, res, tagLog, last>>

\* Validate(template, startTag, endTag, m): NewTemplate, then t.Validate
CallValidate(template, stag, etag, mp) ==
    LET Checked(t) ==
            /\ rerr' = IF t.err # NoErr THEN t.err ELSE Validate(t, mp)
    IN  /\ pc = "idle"
        /\ pc' = "done"
        /\ mode' = "validate"
        /\ data' = mp
        /\ rest' = template
        /\ Checked(Reset(template, stag, etag))
        /\ last' = Called("Validate", template, stag, etag)
        /\ UNCHANGED <<procs, mu>>
        /\ UNCHANGED <<startTag, endTag, tpl, idx, sink, nn, crashed, calls, exprCache,
                       res, tagLog, vres>>

\* the entry of Template.Execute and Template.ExecuteStd
EnterCompiled(md, mp) ==
    /\ pc = "ready"
    /\ pc' = "texec"
    /\ mode' = md
    /\ data' = mp
    /\ idx' = 0
    /\ sink' = ""
    /\ nn' = 0
    /\ tagLog' = <<>>
    /\ UNCHANGED <<procs, mu>>
    /\ UNCHANGED <<rest, startTag, endTag, tpl, rerr, crashed, calls, exprCache, res, vres,
                   last>>

\* Template.Execute: the call
CallTemplateExecute(mp) == EnterCompiled("strict", mp)

\* Template.ExecuteStd: the call
CallTemplateExecuteStd(mp) == EnterCompiled("std", mp)

\* Template.Execute: one pass of its loop
TemplateExecuteLoop == CompiledPass("strict")

\* Template.ExecuteStd: one pass of its loop
TemplateExecuteStdLoop == CompiledPass("std")

\* Eval[T](expression, m)
CallEval(typ, expression, mp) ==
    LET Returned(r) ==
            /\ res' = [typ |-> typ, expression |-> expression, v |-> r.v, err |-> r.err]
            /\ rerr' = r.err
            /\ crashed' = r.crash
            /\ calls' = r.st.calls
            /\ exprCache' = r.st.cache
    IN  /\ pc = "idle"
        /\ pc' = "done"
        /\ mode' = "eval"
        /\ data' = mp
        /\ Returned(Eval(typ, expression, mp, Ctx(calls, exprCache)))
        /\ UNCHANGED <<procs, mu>>
        /\ UNCHANGED <<rest, startTag, endTag, tpl, idx, sink, nn, tagLog, vres, last>>

-----------------------------------------------------------------------------
(* The inputs: bindings, tags, templates.                                  *)

\* the most tags a template of the corpus holds
MaxTags == 2

\* a bindings map with values of every shape the program consumes
Full ==
    MapOf([a |-> IntV(2), b |-> IntV(3), c |-> IntV(4), zero |-> IntV(0),
           fzero |-> FloatV(0, 1), name |-> StrV("bob"), raw |-> BytesV("xy"),
           none |-> NilV, flag |-> BoolV(FALSE),
           add |-> FuncV("add"), upper |-> FuncV("upper"), join |-> FuncV("join"),
           validate |-> FuncV("validate"), rhs |-> FuncV("rhs"), boom |-> FuncV("boom"),
           noop |-> FuncV("noop"), divmod |-> FuncV("divmod"), emit |-> FuncV("emit")])

\* bindings whose keys are not identifiers: the empty key, a key with a
\* hyphen, a key with spaces around it and a key that reads as a call
Keyed ==
    MapOf(("" :> StrV("111")) @@ ("a-b" :> StrV("dash")) @@ (" a " :> BytesV("sp"))
              @@ ("upper(x)" :> StrV("call")) @@ [a |-> IntV(5), name |-> StrV("bob")])

Bindings == {NilMap, MapOf(<<>>), Full, Keyed}

Tags ==
    { "name", "missing", "none", "raw", "emit", "a", " a ",
      "a + b", "a + b * c", "(a + b) * c", "a * (b - c)",
      "price * quantity * (1 - discount)", "name + missing",
      "1 / 0", "a / zero", "a % zero", "a / fzero", "a / b", "7 % 0.5",
      "false && rhs()", "true || rhs()", "rhs() && false", "rhs() || true",
      "flag && rhs() && flag",
      "add(1, 2)", "add(1)", "add(1, 2, 3)", "upper(add(1))", "add(1) + 1",
      "add(missing) + 1", "join()", "join() + 'x'", "join(',', 'p', name)",
      "upper('x')", "upper(name)", "upper(missing)", "upper(1)", "upper(noop())",
      "nope(1)", "name(1)", "none(1)", "none(1) + 1", "add(1, 'x)", "(1 + 2",
      "boom('x')", "upper(boom('x'))", "boom('x') + 'y'", "'a' boom + 'b'",
      "'a' upper + 'b'", "noop()", "validate('ok')", "validate('invalid')",
      "divmod(7, 2)", "add(1, 2 * 3)", "add(a, b) * c", "1 +", "",
      "a-b", "upper(x)" }

\* the tags the leading placeholders of a longer template hold
FirstTags == {"name", "missing", "upper(name)"}

Delims == {<<"{{", "}}">>}

\* the texts of up to k leading placeholders, each followed by a literal
RECURSIVE Prefixes(_, _)
Prefixes(k, d) ==
    IF k = 0 THEN {""}
    ELSE Prefixes(k - 1, d) \cup
         {p \o d[1] \o f \o d[2] \o "-" : p \in Prefixes(k - 1, d), f \in FirstTags}

\* the templates of delimiters d: a literal, up to MaxTags placeholders, a
\* literal; and templates without a placeholder or without an end tag
Templates(d) ==
    {"x" \o p \o d[1] \o t \o d[2] \o "y" : p \in Prefixes(MaxTags - 1, d), t \in Tags}
        \cup {"plain", "", "a" \o d[1] \o "b", d[1] \o "name" \o d[2] \o d[1]}

EvalTypes == {"string", "int", "float", "bool"}

Init ==
    /\ pc = "idle"
    /\ mode = ""
    /\ data = NilMap
    /\ rest = ""
    /\ startTag = ""
    /\ endTag = ""
    /\ tpl = ZeroTemplate
    /\ idx = 0
    /\ sink = ""
    /\ nn = 0
    /\ rerr = NoErr
    /\ crashed = FALSE
    /\ calls = <<>>
    /\ exprCache = <<>>
    /\ res = NoRes
    /\ tagLog = <<>>
    /\ vres = NoValidate
    /\ last = Called("", "", "", "")
    /\ procs = [p \in Procs |-> IdleProc]
    /\ mu = [readers |-> {}, writer |-> None]

Next ==
    \/ \E d \in Delims : \E template \in Templates(d), mp \in Bindings :
          \/ CallExecute(template, d[1], d[2], mp)
          \/ CallExecuteStd(template, d[1], d[2], mp)
    \/ ExecuteLoop
    \/ ExecuteStdLoop
    \/ \E d \in Delims : \E template \in Templates(d) :
          NewTemplate(template, d[1], d[2]) \/ New(template, d[1], d[2])
    \/ \E mp \in Bindings : CallTemplateExecute(mp) \/ CallTemplateExecuteStd(mp)
    \/ TemplateExecuteLoop
    \/ TemplateExecuteStdLoop
    \/ \E typ \in EvalTypes, expression \in Tags, mp \in Bindings :
          CallEval(typ, expression, mp)

Spec == Init /\ [][Next]_vars

-----------------------------------------------------------------------------
(* Numeric inputs: every binding of a, b, c to small ints and to two       *)
(* float64 (0.0 and 0.5), the arithmetic expressions over them, and every  *)
(* chain of two binary operators, plain and with the left pair in          *)
(* parentheses.                                                            *)

\* the largest int bound to a, b or c
MaxNum == 2

NumValues == {IntV(x) : x \in 0..MaxNum} \cup {FloatV(0, 1), FloatV(1, 2)}

NumBindings == {MapOf([a |-> x, b |-> y, c |-> z]) : x \in NumValues, y \in NumValues, z \in NumValues}

NumExprs ==
    { "a + b * c", "(a + b) * c", "a * b + c",
      "a / b", "a % b", "1 / 0", "1 % 0", "a / 0.0", "c / (a - a) + 1" }

NumTemplates(d) == {"x" \o d[1] \o e \o d[2] \o "y" : e \in NumExprs}

Chains ==
    {"a " \o op1 \o " b " \o op2 \o " c" : op1 \in DOMAIN operators, op2 \in DOMAIN operators}
        \cup {"(a " \o op1 \o " b) " \o op2 \o " c" :
                  op1 \in DOMAIN operators, op2 \in DOMAIN operators}

ChainBinding == MapOf([a |-> IntV(1), b |-> IntV(2), c |-> IntV(3)])

NextNum ==
    \/ \E typ \in EvalTypes, expression \in NumExprs, mp \in NumBindings :
          CallEval(typ, expression, mp)
    \/ \E expression \in Chains : CallEval("string", expression, ChainBinding)
    \/ \E d \in Delims : \E template \in NumTemplates(d), mp \in NumBindings :
          \/ CallExecute(template, d[1], d[2], mp)
          \/ CallExecuteStd(template, d[1], d[2], mp)
    \/ ExecuteLoop
    \/ ExecuteStdLoop
    \/ \E d \in Delims : \E template \in NumTemplates(d) : NewTemplate(template, d[1], d[2])
    \/ \E mp \in NumBindings : CallTemplateExecute(mp) \/ CallTemplateExecuteStd(mp)
    \/ TemplateExecuteLoop
    \/ TemplateExecuteStdLoop

SpecNum == Init /\ [][NextNum]_vars

-----------------------------------------------------------------------------
(* Validation: a Template is compiled, validated against bindings and      *)
(* rendered strictly; and the one-shot Validate.                           *)

NextValidate ==
    \/ \E d \in Delims : \E template \in Templates(d) :
          \/ NewTemplate(template, d[1], d[2])
          \/ \E mp \in Bindings : CallValidate(template, d[1], d[2], mp)
    \/ \E mp \in Bindings : CallTemplateValidate(mp) \/ CallTemplateExecute(mp)
    \/ TemplateExecuteLoop

SpecValidate == Init /\ [][NextValidate]_vars

-----------------------------------------------------------------------------
(* Plain templates: every text of up to MaxPieces pieces (a literal, a     *)
(* delimiter, a placeholder, a placeholder without its end) for three      *)
(* pairs of delimiters, one of them with equal start and end.              *)

\* the most pieces a plain template is made of
MaxPieces == 3

PlainDelims == {<<"[", "]">>, <<"{{", "}}">>, <<"@", "@">>}

Pieces(d) == {"a", d[1], d[2], d[1] \o "foo" \o d[2], d[1] \o "foo"}

RECURSIVE PlainTemplates(_, _)
PlainTemplates(k, d) ==
    IF k = 0 THEN {""}
    ELSE PlainTemplates(k - 1, d) \cup
         {t \o piece : t \in PlainTemplates(k - 1, d), piece \in Pieces(d)}

PlainBindings == {NilMap, MapOf(<<>>), MapOf([foo |-> StrV("xxxx")])}

NextPlain ==
    \/ \E d \in PlainDelims :
          \E template \in PlainTemplates(MaxPieces, d), mp \in PlainBindings :
              \/ CallExecute(template, d[1], d[2], mp)
              \/ CallExecuteStd(template, d[1], d[2], mp)
    \/ ExecuteLoop
    \/ ExecuteStdLoop
    \/ \E d \in PlainDelims : \E template \in PlainTemplates(MaxPieces, d) :
          \/ NewTemplate(template, d[1], d[2])
          \/ New(template, d[1], d[2])
          \/ TemplateReset(template, d[1], d[2])
    \/ \E mp \in PlainBindings : CallTemplateExecute(mp) \/ CallTemplateExecuteStd(mp)
    \/ TemplateExecuteLoop
    \/ TemplateExecuteStdLoop

SpecPlain == Init /\ [][NextPlain]_vars

-----------------------------------------------------------------------------
(* Tag texts: the classifier, the tokenizer, the Shunting-Yard conversion, *)
(* the call parser and the evaluator on texts that are quoted, nested,     *)
(* chained or malformed, as a one-shot render of x{{text}}y and as Eval.   *)

\* calls with quoted and with bareword arguments
QuotedTexts ==
    {"upper('name')", "upper(\"name\")", "upper(name)", "upper('a')", "upper(\"missing\")",
     "validate('name')", "validate(name)", "join('-', 'name', name)",
     "join(\"-\", \"raw\", 'a')", "upper( 'name' )"}

\* texts in and out of the grammar operand (binaryOp operand)*
GrammarTexts ==
    {"1 + 2", "1 2 +", "+ 1 2", "1 +", "a b +", "(1 + 2) * 3", "1 + * 2", "1 2",
     "(1 2 +) * 3", "+", "1 + (2)", "* a b"}

\* remainders of integral and fractional operands; fractional divisors
\* below one
ModuloTexts == {"7 % 2", "7.9 % 2.9", "7.5 % 1.5", "0.5 % 3", "7 % 0", "7 % 0.5", "7.9 % 0.25"}

\* calls whose argument strings have quotes left open and parentheses out
\* of balance, and calls whose argument strings are well formed
ArgumentTexts ==
    {"upper(a) + (b)", "upper('x)", "upper(\"x)", "upper((name)", "upper(name))",
     "upper(')')", "upper((name))", "add(1, (2))", "upper(a)b(c)", "upper('\\'')",
     "join(',', ')', '(')"}

\* operators inside and outside quoted substrings, with quotes of the
\* other kind and escaped quotes inside them
QuoteTexts ==
    {"\"it's\" + 1", "'say \"hi\"' + 1", "'a-b'", "\"a+b\"", "'a' + 'b'", "'it\\'s' + 1",
     "\"x'y\"", "'x\"-\"y'", "'a-b' + name", "\"it's a-b\"", "name"}

\* two operators of one precedence tier between a, b and c
TierTexts ==
    {"a " \o p[1] \o " b " \o p[2] \o " c" :
        p \in {q \in {"+", "-", "*", "/", "%", "**"} \X {"+", "-", "*", "/", "%", "**"} :
                   Prec(q[1]) = Prec(q[2])}}

\* expressions with parentheses in and out of balance
ParenTexts ==
    {"(1 + 2", "(1+2", "1 + 2)", "((1 + 2) * 3", "(1 + 2)) * 3 + 1", "1) + (2", ") + (",
     "(1 + 2) * (3 + 4", "(1 + 2) * 3", "((1)) + 1", "1 + (2"}

TextTags == QuotedTexts \cup GrammarTexts \cup ModuloTexts \cup ArgumentTexts \cup QuoteTexts \cup TierTexts \cup ParenTexts

TextTemplates == {"x{{" \o t \o "}}y" : t \in TextTags}

TextBindings ==
    {Full, MapOf(<<>>),
     MapOf([a |-> IntV(2), b |-> IntV(3), c |-> IntV(2), name |-> StrV("bob"),
            x |-> StrV("bound"), upper |-> FuncV("upper")])}

NextText ==
    \/ \E template \in TextTemplates, mp \in TextBindings :
          \/ CallExecute(template, "{{", "}}", mp)
          \/ CallExecuteStd(template, "{{", "}}", mp)
    \/ ExecuteLoop
    \/ ExecuteStdLoop
    \/ \E typ \in EvalTypes, expression \in TextTags, mp \in TextBindings :
          CallEval(typ, expression, mp)

SpecText == Init /\ [][NextText]_vars

-----------------------------------------------------------------------------
(* Concurrent calls on one compiled Template.  Each goroutine runs one     *)
(* call at a time; its buffer or writer is its own (ExecuteString takes a  *)
(* buffer from t.byteBufferPool and resets it before putting it back).     *)
(* The steps of evalExpression that touch exprCache are separate steps, so *)
(* that they interleave: RLock, the lookup with RUnlock, Lock, the store   *)
(* with Unlock.  A step that runs a call tag, or evaluatePostfix, runs the *)
(* nested evalExpression calls of its arguments inside the step; it waits  *)
(* until the lock would let each of them through.                          *)

Ops == {"Execute", "ExecuteStd", "ExecuteString", "ExecuteStringStd", "Validate"}

\* Execute and ExecuteString run processTag, the Std forms processTagStd
Strict(op) == op \in {"Execute", "ExecuteString"}

\* the goroutine q takes the place of goroutine p
Becomes(p, q) == procs' = [procs EXCEPT ![p] = q]

\* the call returns
Returns(q, out, count, e) ==
    [q EXCEPT !.pc = "done", !.sink = out, !.nn = count, !.err = e]

\* the tag at q.idx is resolved as r: the loop goes on, returns or panics
TagDone(q, tag, r) ==
    IF r.crash THEN [q EXCEPT !.pc = "done", !.crashed = TRUE]
    ELSE IF r.err # NoErr /\ (~Strict(q.op) \/ Propagates(tag, r.err))
        THEN Returns(q, q.sink \o r.wrote, q.nn + r.n, r.err)
    ELSE [q EXCEPT !.pc = "loop", !.idx = q.idx + 1, !.sink = q.sink \o r.wrote,
                   !.nn = q.nn + r.n]

\* what the loop does with the result r of evalExpression for the tag
ExprDone(q, tag, r) ==
    TagDone(q, tag, IF Strict(q.op) THEN Rendered(r, "expr")
                    ELSE RenderedStd(r, "expr", tag, tpl.startTag, tpl.endTag))

\* RWMutex: RLock passes while nobody holds the lock exclusively
CanRLock == mu.writer = None

\* RWMutex: Lock passes while nobody holds the lock
CanLock == mu.writer = None /\ mu.readers = {}

\* a step that calls evalExpression inside itself leaves the cache as
\* cache_: it passed RLock, and Lock too if it stored anything
Passes(cache_) ==
    /\ CanRLock
    /\ cache_ # exprCache => CanLock
    /\ exprCache' = cache_
    /\ UNCHANGED mu

\* go t.Execute(w, m), go t.ExecuteStd(w, m), go t.ExecuteString(m),
\* go t.ExecuteStringStd(m), go t.Validate(m)
GoCall(p, op, mp) ==
    /\ pc = "ready"
    /\ procs[p].pc = "idle"
    /\ Becomes(p, IF op = "Validate"
                  THEN [IdleProc EXCEPT !.pc = "done", !.op = op, !.data = mp,
                                        !.err = Validate(tpl, mp)]
                  ELSE [IdleProc EXCEPT !.pc = "loop", !.op = op, !.data = mp])
    /\ UNCHANGED <<pc, mode, data, rest, startTag, endTag, tpl, idx, sink, nn, rerr,
                   crashed, calls, exprCache, res, tagLog, vres, last, mu>>

\* one pass of the loop of Template.Execute / Template.ExecuteStd in
\* goroutine p, up to the first RLock of evalExpression, or the write
\* after the loop
ProcPass(p) ==
    LET q == procs[p]
        n == Len(tpl.texts) - 1
        lit == [q EXCEPT !.sink = q.sink \o tpl.texts[q.idx + 1],
                             !.nn = q.nn + Len(tpl.texts[q.idx + 1])]
        Whole(tag, r) == Becomes(p, TagDone(lit, tag, r)) /\ Passes(r.st.cache)
        Tag(tag) ==
            IF isExpression(tag) /\ ~isFunctionCall(tag)
            THEN Becomes(p, [lit EXCEPT !.pc = "rlock"]) /\ UNCHANGED <<exprCache, mu>>
            ELSE Whole(tag, IF Strict(q.op)
                            THEN processTag(tag, q.data, Ctx(<<>>, exprCache))
                            ELSE processTagStd(tag, tpl.startTag, tpl.endTag, q.data,
                                               Ctx(<<>>, exprCache)))
    IN  /\ q.pc = "loop"
        /\ IF n = -1
           THEN /\ Becomes(p, Returns(q, q.sink \o tpl.template, Len(tpl.template), NoErr))
                /\ UNCHANGED <<exprCache, mu>>
           ELSE IF q.idx < n THEN Tag(tpl.tags[q.idx + 1])
           ELSE /\ Becomes(p, Returns(lit, lit.sink, lit.nn, NoErr))
                /\ UNCHANGED <<exprCache, mu>>
        /\ UNCHANGED <<pc, mode, data, rest, startTag, endTag, tpl, idx, sink, nn, rerr,
                       crashed, calls, res, tagLog, vres, last>>

\* exprCache.mu.RLock()
RLock(p) ==
    /\ procs[p].pc = "rlock"
    /\ CanRLock
    /\ mu' = [mu EXCEPT !.readers = @ \cup {p}]
    /\ Becomes(p, [procs[p] EXCEPT !.pc = "lookup"])
    /\ UNCHANGED <<pc, mode, data, rest, startTag, endTag, tpl, idx, sink, nn, rerr,
                   crashed, calls, exprCache, res, tagLog, vres, last>>

\* postfixTokens, found := exprCache.postfix[expression], RUnlock, and on a
\* miss tokenize and toPostfix: an error of either ends evalExpression
Lookup(p) ==
    LET q == procs[p]
        tag == tpl.tags[q.idx + 1]
        Parsed(tr) ==
            IF tr.err # NoErr THEN [err |-> tr.err, toks |-> <<>>] ELSE toPostfix(tr.toks)
        Missed(pr) ==
            IF pr.err # NoErr
            THEN ExprDone(q, tag, Fail(pr.err, Ctx(<<>>, exprCache)))
            ELSE [q EXCEPT !.pc = "lock", !.toks = pr.toks]
    IN  /\ q.pc = "lookup"
        /\ mu' = [mu EXCEPT !.readers = @ \ {p}]
        /\ Becomes(p, IF tag \in DOMAIN exprCache
                      THEN [q EXCEPT !.pc = "eval", !.toks = exprCache[tag]]
                      ELSE Missed(Parsed(tokenize(tag))))
        /\ UNCHANGED <<pc, mode, data, rest, startTag, endTag, tpl, idx, sink, nn, rerr,
                       crashed, calls, exprCache, res, tagLog, vres, last>>

\* an insertion that does not take the lock
LockSkipped(p) ==
    /\ procs[p].pc = "lock"
    /\ Becomes(p, [procs[p] EXCEPT !.pc = "store"])
    /\ UNCHANGED <<pc, mode, data, rest, startTag, endTag, tpl, idx, sink, nn, rerr,
                   crashed, calls, exprCache, res, tagLog, vres, last, mu>>

\* exprCache.mu.Lock()
Lock(p) ==
    /\ procs[p].pc = "lock"
    /\ CanLock
    /\ mu' = [mu EXCEPT !.writer = p]
    /\ Becomes(p, [procs[p] EXCEPT !.pc = "store"])
    /\ UNCHANGED <<pc, mode, data, rest, startTag, endTag, tpl, idx, sink, nn, rerr,
                   crashed, calls, exprCache, res, tagLog, vres, last>>

\* exprCache.postfix[expression] = postfixTokens, Unlock
Store(p) ==
    /\ procs[p].pc = "store"
    /\ exprCache' = CachePut(exprCache, tpl.tags[procs[p].idx + 1], procs[p].toks)
    /\ mu' = [mu EXCEPT !.writer = None]
    /\ Becomes(p, [procs[p] EXCEPT !.pc = "eval"])
    /\ UNCHANGED <<pc, mode, data, rest, startTag, endTag, tpl, idx, sink, nn, rerr,
                   crashed, calls, res, tagLog, vres, last>>

\* return evaluatePostfix(postfixTokens, data), and what the loop does
\* with the result
Evaluate(p) ==
    LET q == procs[p]
        Evaluated(r) ==
            /\ Becomes(p, ExprDone([q EXCEPT !.toks = <<>>], tpl.tags[q.idx + 1], r))
            /\ Passes(r.st.cache)
    IN  /\ q.pc = "eval"
        /\ Evaluated(evaluatePostfix(q.toks, q.data, Ctx(<<>>, exprCache)))
        /\ UNCHANGED <<pc, mode, data, rest, startTag, endTag, tpl, idx, sink, nn, rerr,
                       crashed, calls, res, tagLog, vres, last>>

\* the templates and bindings of the concurrent calls
ConcTemplates ==
    {"x{{a + b}}y", "{{a + b}}{{name}}{{a + b}}", "{{upper(name)}}{{a * c}}",
     "{{a +}}{{missing}}z", "{{missing}}{{1 / 0}}z", "{{a + b}}{{a * c}}", "plain",
     "{{(a + b}}{{a + b}}", "{{a + $}}{{a + b}}", "{{add(a, b * c)}}{{b * c}}"}

ConcBindings == {NilMap, Full}

NextConc ==
    \/ \E template \in ConcTemplates : NewTemplate(template, "{{", "}}")
    \/ \E p \in Procs, op \in Ops, mp \in ConcBindings : GoCall(p, op, mp)
    \/ \E p \in Procs : ProcPass(p)
    \/ \E p \in Procs : RLock(p)
    \/ \E p \in Procs : Lookup(p)
    \/ \E p \in Procs : Lock(p)
    \/ \E p \in Procs : Store(p)
    \/ \E p \in Procs : Evaluate(p)

SpecConc == Init /\ [][NextConc]_vars

-----------------------------------------------------------------------------
(* Properties.  They read the observable outcome of an operation: the      *)
(* sink, the returned error, the panic flag, the functions invoked, the    *)
(* cached postfix and, per resolved tag, its tagLog entry.                 *)

Range(seq) == {seq[i] : i \in DOMAIN seq}

Rendering == mode \in {"strict", "std"}

\* the placeholder of a tag as the template of the render spells it
Verbatim(tag) ==
    IF tpl = ZeroTemplate THEN startTag \o tag \o endTag
    ELSE tpl.startTag \o tag \o tpl.endTag

\* the tag a render was resolving when it stopped
StoppedAt ==
    IF tpl = ZeroTemplate THEN Slice(rest, 0, Index(rest, endTag)) ELSE tpl.tags[idx + 1]

\* C1: strict render is fail-fast with partial output: the first tag whose
\* resolution fails with anything but a plain-variable miss ends the call,
\* which returns that error with the sink holding exactly what precedes
\* the tag.
C1_StrictFailFast ==
    mode = "strict" =>
        \A i \in 1..Len(tagLog) :
            (tagLog[i].fail # NoErr /\ tagLog[i].path # "var") =>
                /\ i = Len(tagLog)
                /\ pc = "done"
                /\ rerr = tagLog[i].fail
                /\ sink = tagLog[i].before

\* C2: in strict render the only failure swallowed is the miss of a
\* plain-variable tag, which renders as nothing; every failing function-call
\* tag and every failing expression tag (an unbound operand included) ends
\* the render with its error.
C2_OnlyPlainMissSwallowed ==
    mode = "strict" =>
        \A i \in 1..Len(tagLog) :
            /\ (tagLog[i].fail # NoErr /\ tagLog[i].path = "var") =>
                   /\ tagLog[i].wrote = ""
                   /\ (i = Len(tagLog) => pc # "done" \/ rerr = NoErr)
            /\ (tagLog[i].fail # NoErr /\ tagLog[i].path \in {"call", "expr"}) =>
                   /\ i = Len(tagLog)
                   /\ pc = "done"
                   /\ rerr = tagLog[i].fail

\* C3: tolerant render never fails, by an error or by a panic, whatever
\* goes wrong while a tag is resolved, and writes every failing tag as the
\* template spells it.
C3_TolerantNeverFails ==
    mode = "std" =>
        /\ ~crashed
        /\ rerr = NoErr
        /\ \A i \in 1..Len(tagLog) :
               tagLog[i].fail # NoErr => tagLog[i].wrote = Verbatim(tagLog[i].tag)

\* an operator character outside quotes
OperatorOutsideQuotes(text) == ExprScan(text, 0, FALSE, FALSE)

\* a single call name(...): a valid name, and the parenthesis that follows
\* it closes on the last byte
SingleCall(text) ==
    LET parenIdx == IndexByte(text, "(")
        close == ScanCall(text, parenIdx + 1, 1)
    IN  /\ parenIdx > 0
        /\ isValidFunctionName(Slice(text, 0, parenIdx))
        /\ close.depth = 0
        /\ close.k = Len(text) - 1

\* C4: a tag with an operator outside quotes that is no single call
\* name(...) is resolved as an expression, also when it ends with a
\* parenthesised group; it is never handed to the function-call parser.
C4_OperatorTextIsExpression ==
    Rendering =>
        \A i \in 1..Len(tagLog) :
            (/\ OperatorOutsideQuotes(TrimSpace(tagLog[i].tag))
             /\ ~SingleCall(TrimSpace(tagLog[i].tag))) => tagLog[i].path = "expr"

\* the texts that join a call of rhs to another operand by && or ||
LogicalTexts ==
    {"false && rhs()", "true || rhs()", "rhs() && false", "rhs() || true",
     "flag && rhs() && flag"}

\* C5: && and || never short-circuit: whatever the other operand is, Eval
\* or a render of lhs && rhs() or lhs || rhs() invokes rhs exactly once.
C5_NoShortCircuit ==
    data = Full =>
        /\ (mode = "eval" /\ res.expression \in LogicalTexts) => calls = <<"rhs">>
        /\ Rendering =>
               \A i \in 1..Len(tagLog) :
                   tagLog[i].tag \in LogicalTexts => tagLog[i].calls = <<"rhs">>

\* the binding strength of the operators, weakest first:
\* || < && < ==,!= < >,>=,<,<= < +,- < *,/,% < **
Binds(op) ==
    CASE op = "||" -> 1
      [] op = "&&" -> 2
      [] op \in {"==", "!="} -> 3
      [] op \in {">", ">=", "<", "<="} -> 4
      [] op \in {"+", "-"} -> 5
      [] op \in {"*", "/", "%"} -> 6
      [] op = "**" -> 7

BinaryOps ==
    {"||", "&&", "==", "!=", ">", ">=", "<", "<=", "+", "-", "*", "/", "%", "**"}

\* exact arithmetic on the numbers n/d
Sum(x, y) == FloatV(x.n * y.d + y.n * x.d, x.d * y.d)
Product(x, y) == FloatV(x.n * y.n, x.d * y.d)

TokenValues(toks) == [i \in 1..Len(toks) |-> toks[i].value]

\* C6: precedence is honoured: for numeric a, b, c, a + b * c is a + (b*c)
\* and (a+b)*c is (a+b)*c; the postfix of x op1 y op2 z applies op2 first
\* exactly when it binds tighter than op1, and parentheses override that.
C6_PrecedenceHonoured ==
    /\ (mode = "eval" /\ data \in NumBindings /\ res.typ = "float") =>
           /\ res.expression = "a + b * c" =>
                  /\ rerr = NoErr
                  /\ res.v = Sum(data.kv.a, Product(data.kv.b, data.kv.c))
           /\ res.expression = "(a + b) * c" =>
                  /\ rerr = NoErr
                  /\ res.v = Product(Sum(data.kv.a, data.kv.b), data.kv.c)
    /\ (Rendering /\ data \in NumBindings) =>
           \A i \in 1..Len(tagLog) :
               /\ tagLog[i].tag = "a + b * c" =>
                      tagLog[i].wrote = Sprint(Sum(data.kv.a, Product(data.kv.b, data.kv.c)))
               /\ tagLog[i].tag = "(a + b) * c" =>
                      tagLog[i].wrote = Sprint(Product(Sum(data.kv.a, data.kv.b), data.kv.c))
    /\ \A op1 \in BinaryOps, op2 \in BinaryOps :
           LET flat == "a " \o op1 \o " b " \o op2 \o " c"
               grouped == "(a " \o op1 \o " b) " \o op2 \o " c"
           IN  /\ flat \in DOMAIN exprCache =>
                      TokenValues(exprCache[flat]) =
                          IF Binds(op2) > Binds(op1) THEN <<"a", "b", "c", op2, op1>>
                          ELSE <<"a", "b", op1, "c", op2>>
               /\ grouped \in DOMAIN exprCache =>
                      TokenValues(exprCache[grouped]) = <<"a", "b", op1, "c", op2>>

\* a + b * c evaluated where the two readings differ, and a chain whose
\* second operator binds tighter cached
C6_Witness ==
    /\ mode = "eval"
    /\ res.typ = "float"
    /\ res.expression = "a + b * c"
    /\ data = MapOf([a |-> IntV(1), b |-> IntV(2), c |-> IntV(2)])
    /\ res.v = FloatV(5, 1)
    /\ rerr = NoErr

\* the divisor of a division or remainder of the numeric corpus is zero
ZeroDivisor(text, mp) ==
    CASE text \in {"a / b", "a % b"} -> mp.kv.b.n = 0
      [] text \in {"1 / 0", "1 % 0", "a / 0.0", "c / (a - a) + 1"} -> TRUE
      [] OTHER -> FALSE

\* C7: a / b and a % b with numeric operands and b zero give DivisionByZero,
\* never a value and never a panic: Eval returns the error, strict render
\* writes nothing for the tag, tolerant render writes the tag verbatim.
C7_DivisionByZero ==
    data \in NumBindings =>
        /\ (mode = "eval" /\ ZeroDivisor(res.expression, data)) =>
               /\ ~crashed
               /\ rerr.kind = "DivisionByZero"
               /\ res.v = Zero(res.typ)
        /\ Rendering =>
               /\ \A i \in 1..Len(tagLog) :
                      ZeroDivisor(tagLog[i].tag, data) =>
                          /\ tagLog[i].fail.kind = "DivisionByZero"
                          /\ IF mode = "strict"
                             THEN /\ tagLog[i].wrote = ""
                                  /\ sink = tagLog[i].before
                                  /\ pc = "done"
                                  /\ rerr = tagLog[i].fail
                             ELSE /\ tagLog[i].wrote = Verbatim(tagLog[i].tag)
                                  /\ rerr = NoErr
               /\ crashed => ~ZeroDivisor(StoppedAt, data)

\* a tolerant render that met a % b with b bound to 0.0
C7_Witness ==
    /\ mode = "std"
    /\ pc = "done"
    /\ data.kv.b = FloatV(0, 1)
    /\ Len(tagLog) = 1
    /\ tagLog[1].tag = "a % b"
    /\ tagLog[1].fail.kind = "DivisionByZero"
    /\ sink = "x{{a % b}}y"

\* the tags of the corpus with a call whose argument count does not fit add
\* (two parameters) or join (one parameter, then variadic)
MisfitTexts ==
    {"add(1)", "add(1, 2, 3)", "upper(add(1))", "add(1) + 1", "add(missing) + 1",
     "join()", "join() + 'x'"}

\* C8: a call whose argument count does not fit its target is rejected
\* without the target being invoked, at the top level and nested: strict
\* render returns an error and writes nothing for the tag, tolerant render
\* writes the tag verbatim.
C8_ArityMisfitRejected ==
    (Rendering /\ data = Full) =>
        \A i \in 1..Len(tagLog) :
            tagLog[i].tag \in MisfitTexts =>
                /\ tagLog[i].fail # NoErr
                /\ tagLog[i].calls = <<>>
                /\ IF mode = "strict"
                   THEN /\ tagLog[i].wrote = ""
                        /\ pc = "done"
                        /\ rerr # NoErr
                   ELSE tagLog[i].wrote = Verbatim(tagLog[i].tag)

\* the functions of FuncTable whose body panics on every call
Panicking == {"boom"}

\* C9: a panic raised while a bound function is called, by the callee or
\* by the reflective call on an argument that does not fit, is returned as
\* an error naming the function; it never leaves Execute, ExecuteStd or
\* Eval.
C9_PanicsContained ==
    data = Full =>
        /\ ~(crashed /\ calls # <<>> /\ calls[Len(calls)] \in Panicking)
        /\ (mode = "eval" /\ calls # <<>> /\ calls[Len(calls)] \in Panicking) =>
               rerr = Err("Panic", calls[Len(calls)])
        /\ (mode = "eval" /\ res.expression = "upper(1)") => rerr = Err("Panic", "upper")
        /\ Rendering =>
               \A i \in 1..Len(tagLog) :
                   /\ (tagLog[i].calls # <<>>
                       /\ tagLog[i].calls[Len(tagLog[i].calls)] \in Panicking) =>
                          tagLog[i].fail = Err("Panic", tagLog[i].calls[Len(tagLog[i].calls)])
                   /\ tagLog[i].tag = "upper(1)" => tagLog[i].fail = Err("Panic", "upper")

\* a call text whose arguments are literals and variables, and whose target
\* is the one function that ran
DirectCall(text, ran) ==
    /\ SingleCall(TrimSpace(text))
    /\ parseFunctionCall(text).err = NoErr
    /\ ran = <<parseFunctionCall(text).fc.Name>>
    /\ \A k \in 1..Len(parseFunctionCall(text).fc.Args) :
           parseFunctionCall(text).fc.Args[k].t \in {"literal", "bare", "value"}

\* what the target of a direct call returns under the bindings Full
CalleeReturns(text) ==
    Invoke(parseFunctionCall(text).fc.Name,
           Materialize(parseFunctionCall(text).fc.Args, 1, <<>>, Full, Full,
                       Ctx(<<>>, <<>>)).args)

\* the reading of a callee's results by their shape: [v, err]
ByShape(out) ==
    CASE Len(out) = 0 -> [v |-> NilV, err |-> NoErr]
      [] Len(out) = 1 -> [v |-> out[1], err |-> NoErr]
      [] Len(out) = 2 /\ out[2].k = "error" ->
             [v |-> NilV, err |-> Err("FunctionError", out[2].sv)]
      [] Len(out) = 2 /\ out[2].k = "nil" -> [v |-> out[1], err |-> NoErr]

\* the results have one of the shapes ByShape reads
Shaped(r) == ~r.panic /\ (Len(r.out) = 2 => r.out[2].k \in {"error", "nil"})

\* C10: execute reads the callee's results by shape: none gives nil and no
\* error, one gives that value, two give the second as the error (the first
\* discarded) when it is a non-nil error and the first value when it is nil.
C10_ResultsByShape ==
    data = Full =>
        /\ (/\ mode = "eval"
            /\ res.typ = "string"
            /\ DirectCall(res.expression, calls)
            /\ Shaped(CalleeReturns(res.expression))) =>
               /\ ~crashed
               /\ rerr = ByShape(CalleeReturns(res.expression).out).err
               /\ res.v = IF rerr # NoErr THEN StrV("")
                          ELSE StrV(toString(ByShape(CalleeReturns(res.expression).out).v))
        /\ Rendering =>
               \A i \in 1..Len(tagLog) :
                   (/\ DirectCall(tagLog[i].tag, tagLog[i].calls)
                    /\ Shaped(CalleeReturns(tagLog[i].tag))) =>
                       /\ tagLog[i].fail = ByShape(CalleeReturns(tagLog[i].tag).out).err
                       /\ tagLog[i].wrote =
                              IF tagLog[i].fail = NoErr
                              THEN RenderValue(ByShape(CalleeReturns(tagLog[i].tag).out).v)
                              ELSE IF mode = "strict" THEN ""
                              ELSE Verbatim(tagLog[i].tag)

\* a strict render stopped by the error validate returned beside a value
C10_Witness ==
    /\ mode = "strict"
    /\ pc = "done"
    /\ data = Full
    /\ tagLog # <<>>
    /\ tagLog[Len(tagLog)].tag = "validate('invalid')"
    /\ tagLog[Len(tagLog)].calls = <<"validate">>
    /\ tagLog[Len(tagLog)].wrote = ""
    /\ rerr = Err("FunctionError", "validation failed")


-----------------------------------------------------------------------------
(* Validate (C11, C12).                                                    *)

\* a tag that is neither a function call nor an expression
PlainTag(tag) == ~isFunctionCall(tag) /\ ~isExpression(tag)

\* the text before the first parenthesis of a function-call tag
CallName(tag) == TrimSpace(Slice(TrimSpace(tag), 0, IndexByte(TrimSpace(tag), "(")))

\* a plain tag absent from mp, or a function-call tag whose name is not
\* bound to an invocable in mp
Unresolved(tag, mp) ==
    \/ PlainTag(tag) /\ ~Has(mp, tag)
    \/ /\ isFunctionCall(tag)
       /\ ~(Has(mp, CallName(tag)) /\ mp.kv[CallName(tag)].k = "func")

\* a function-call tag the function-call parser rejects
Malformed(tag) == isFunctionCall(tag) /\ parseFunctionCall(tag).err # NoErr

\* the tags of t at which bad holds
TagsWhere(t, bad(_)) == {k \in 1..Len(t.tags) : bad(t.tags[k])}

Least(S) == CHOOSE k \in S : \A j \in S : k <= j

\* Validate names the first of the tags at which bad holds, and returns nil
\* when there is none; with a nil map it fails exactly when t has a tag
ValidateFinds(bad(_, _)) ==
    LET BadHere(tag) == bad(tag, vres.m)
        found == TagsWhere(tpl, BadHere)
    IN  vres.done =>
            IF vres.m.isNil THEN (vres.err # NoErr) <=> (Len(tpl.tags) > 0)
            ELSE IF found = {} THEN vres.err = NoErr
            ELSE vres.err # NoErr /\ vres.err.name = tpl.tags[Least(found)]

\* C11 as stated: Template.Validate(m) returns an error for the first tag
\* that is a plain tag absent from m or a function-call tag whose name is
\* not bound to an invocable, and nil when there is no such tag; with nil
\* m it returns an error exactly when the template has a tag
C11_ValidateAsStated == ValidateFinds(Unresolved)

UnresolvedOrMalformed(tag, mp) == Unresolved(tag, mp) \/ Malformed(tag)

\* C11: Template.Validate(m) with non-nil m returns an error for the first
\* tag, in template order, that is a plain tag absent from m, a function-call
\* tag the parser rejects, or a function-call tag whose name is not bound to
\* an invocable in m, and nil when there is no such tag; expression tags are
\* skipped; with nil m it returns an error exactly when the template has a tag
C11_ValidateFirstUnresolved == ValidateFinds(UnresolvedOrMalformed)

\* Validate passed a resolvable first tag and an expression with an unbound
\* operand, or stopped at a second tag after a resolvable first one
C11_Witness ==
    /\ vres.done
    /\ ~vres.m.isNil
    /\ Len(tpl.tags) = 2
    /\ ~Unresolved(tpl.tags[1], vres.m)
    /\ \/ tpl.tags[2] = "name + missing" /\ vres.err = NoErr
       \/ tpl.tags[2] = "name(1)" /\ vres.err = Err("UnresolvedFunction", "name(1)")


\* C12: whenever Template.Validate(m) returned nil, a following strict
\* Execute with the same m returns no error, does not panic, and resolves
\* every tag (none is a swallowed miss)
C12_ValidateSufficient ==
    (pc = "done" /\ mode = "strict" /\ vres.done /\ vres.err = NoErr /\ vres.m = data)
        => /\ rerr = NoErr
           /\ ~crashed
           /\ \A k \in 1..Len(tagLog) : tagLog[k].fail = NoErr


-----------------------------------------------------------------------------
(* Eval (C13).                                                             *)

\* a function-call text whose name is not bound to an invocable
NotInvocable(text, mp) ==
    /\ isFunctionCall(text)
    /\ ~Malformed(text)
    /\ ~(Has(mp, CallName(text)) /\ mp.kv[CallName(text)].k = "func")

\* C13: Eval returns every failure as an error together with the zero value
\* of T, and never panics: a plain name that is not bound fails with
\* VariableNotFound, a call of an unknown or non-invocable name fails, and a
\* text the parser rejects fails
C13_EvalPropagates ==
    (pc = "done" /\ mode = "eval")
        => /\ ~crashed
           /\ res.err # NoErr => res.v = Zero(res.typ)
           /\ (PlainTag(res.expression) /\ ~Has(data, res.expression))
                  => res.err.kind = "VariableNotFound"
           /\ NotInvocable(res.expression, data) => res.err # NoErr
           /\ Malformed(res.expression) => res.err # NoErr


-----------------------------------------------------------------------------
(* Plain lookup (C14).                                                     *)

\* C14: a tag whose exact text is a key of the bindings bound to a string
\* or a []byte is rendered, strict and tolerant, as that bound value
C14_BoundTextWritten ==
    \A k \in 1..Len(tagLog) :
        (Has(data, tagLog[k].tag) /\ data.kv[tagLog[k].tag].k \in {"string", "bytes"})
            => tagLog[k].wrote = data.kv[tagLog[k].tag].sv /\ tagLog[k].fail = NoErr


-----------------------------------------------------------------------------
(* The returned count (C15).                                               *)

\* C15: the byte count a render returns is the number of bytes it wrote to
\* the sink: on success, on a strict failure and with tags preserved by a
\* tolerant render
C15_CountIsBytesWritten ==
    (pc = "done" /\ mode \in {"strict", "std"} /\ ~crashed) => nn = Len(sink)

\* a strict render that failed after output, and a tolerant render that
\* preserved a tag
C15_Witness ==
    /\ pc = "done"
    /\ ~crashed
    /\ nn > 0
    /\ \/ mode = "strict" /\ rerr # NoErr
       \/ /\ mode = "std"
          /\ \E k \in 1..Len(tagLog) :
                tagLog[k].fail # NoErr /\ tagLog[k].wrote = "{{" \o tagLog[k].tag \o "}}"


-----------------------------------------------------------------------------
(* Tolerant against strict (C16).                                          *)

\* an evaluation context with nothing invoked and nothing cached
Fresh == Ctx(<<>>, <<>>)

\* a render that returned with every tag resolved
AllResolved ==
    /\ pc = "done"
    /\ ~crashed
    /\ \A k \in 1..Len(tagLog) : tagLog[k].fail = NoErr

\* the resolution r of a tag agrees with the logged one: no failure and
\* the same bytes
AgreesWith(r, entry) ==
    /\ ~r.crash
    /\ r.fail = NoErr
    /\ r.wrote = entry.wrote

\* C16: when every tag of a render resolves, the tolerant render and the
\* strict render write the same bytes for every tag and return no error
C16_TolerantAsStrict ==
    AllResolved =>
        /\ mode \in {"strict", "std"} => rerr = NoErr
        /\ mode = "std" =>
              \A k \in 1..Len(tagLog) :
                  AgreesWith(processTag(tagLog[k].tag, data, Fresh), tagLog[k])
        /\ mode = "strict" =>
              \A k \in 1..Len(tagLog) :
                  AgreesWith(processTagStd(tagLog[k].tag, "{{", "}}", data, Fresh), tagLog[k])

\* a tolerant render resolved a call and a name bound to nil
C16_Witness ==
    /\ AllResolved
    /\ mode = "std"
    /\ Len(tagLog) = 2
    /\ tagLog[1].tag = "upper(name)" /\ tagLog[1].wrote = "BOB"
    /\ tagLog[2].tag = "none" /\ tagLog[2].wrote = ""
    /\ sink = "xBOB-y"


-----------------------------------------------------------------------------
(* Round trip and compilation (C17, C18).                                  *)

\* C17: a one-shot ExecuteStd of a template whose tags are all plain tags
\* that the bindings do not hold writes the template text itself and returns
\* no error, a template ending in an unterminated start delimiter included
C17_RoundTrip ==
    ( /\ pc = "done"
      /\ last.op = "ExecuteStd"
      /\ \A tag \in Range(Reset(last.template, last.startTag, last.endTag).tags) :
            PlainTag(tag) /\ ~Has(data, tag) )
        => sink = last.template /\ rerr = NoErr /\ ~crashed

\* a round trip of two preserved tags, and one of an unterminated template
C17_Witness ==
    /\ pc = "done"
    /\ last.op = "ExecuteStd"
    /\ sink = last.template
    /\ \A k \in 1..Len(tagLog) : ~Has(data, tagLog[k].tag)
    /\ \/ Len(tagLog) = 2
       \/ last.template = "a[foo][foo"

\* some start delimiter of the template is not followed by an end
\* delimiter; with equal delimiters, where they pair up from the left, an
\* odd one is left over
Unterminated(template, stag, etag) ==
    IF stag = etag THEN Count(template, stag) % 2 = 1
    ELSE \E k \in 0..(Len(template) - Len(stag)) :
            /\ Slice(template, k, k + Len(stag)) = stag
            /\ Index(From(template, k + Len(stag)), etag) < 0

\* C18: compiling a template with a start delimiter that no end delimiter
\* follows fails: NewTemplate returns an error and no Template, New panics,
\* and Reset returns an error
C18_UnterminatedFails ==
    (last.op # "" /\ Unterminated(last.template, last.startTag, last.endTag)) =>
        /\ last.op = "NewTemplate" => pc = "done" /\ rerr # NoErr
        /\ last.op = "New" => pc = "done" /\ crashed
        /\ (last.op = "Reset" /\ pc = "ready") => rerr # NoErr /\ tpl.err # NoErr

\* Reset failed on a Template that was compiled before
C18_Witness ==
    /\ last.op = "Reset"
    /\ pc = "ready"
    /\ last.template = "[foo]a[foo"
    /\ rerr # NoErr

\* the call op with bindings mp on the compiled template, run alone from
\* its first pass to its return: no other goroutine, an empty cache
RECURSIVE AloneFrom(_, _)
AloneTag(lit, tag, r) == AloneFrom(TagDone(lit, tag, r), r.st.cache)

AloneFrom(q, cache_) ==
    LET n == Len(tpl.texts) - 1
        lit == [q EXCEPT !.sink = q.sink \o tpl.texts[q.idx + 1],
                             !.nn = q.nn + Len(tpl.texts[q.idx + 1])]
    IN  IF q.pc # "loop" THEN q
        ELSE IF n = -1 THEN Returns(q, q.sink \o tpl.template, Len(tpl.template), NoErr)
        ELSE IF q.idx = n THEN Returns(lit, lit.sink, lit.nn, NoErr)
        ELSE AloneTag(lit, tpl.tags[q.idx + 1],
                      IF Strict(q.op)
                      THEN processTag(tpl.tags[q.idx + 1], q.data, Ctx(<<>>, cache_))
                      ELSE processTagStd(tpl.tags[q.idx + 1], tpl.startTag, tpl.endTag,
                                         q.data, Ctx(<<>>, cache_)))

Alone(op, mp) ==
    IF op = "Validate"
    THEN [IdleProc EXCEPT !.pc = "done", !.op = op, !.data = mp, !.err = Validate(tpl, mp)]
    ELSE AloneFrom([IdleProc EXCEPT !.pc = "loop", !.op = op, !.data = mp], <<>>)

\* what the caller of a returned call sees: the bytes in its writer, the
\* count and the error, or the panic; the String forms return the bytes only
Output(q) ==
    IF q.op \in {"ExecuteString", "ExecuteStringStd"}
    THEN [out |-> IF q.crashed THEN "" ELSE q.sink, n |-> 0, err |-> NoErr,
          crashed |-> q.crashed]
    ELSE [out |-> q.sink, n |-> IF q.crashed THEN 0 ELSE q.nn, err |-> q.err,
          crashed |-> q.crashed]

\* a step of the concurrent calls leaves the compiled template and the
\* bindings of every call that is under way as they are
ReadOnlyStep ==
    (pc = "ready" /\ \E p \in Procs : procs[p].pc # "idle")
        => /\ tpl' = tpl
           /\ \A p \in Procs : procs[p].pc # "idle" => procs'[p].data = procs[p].data

\* every returned call returned what it returns when run alone
OutputAsAlone ==
    \A p \in Procs :
        procs[p].pc = "done" => Output(procs[p]) = Output(Alone(procs[p].op, procs[p].data))

\* C19: Execute, ExecuteStd, ExecuteString, ExecuteStringStd and Validate
\* calls that run concurrently on one compiled Template, with no Reset, do
\* not write its texts, tags or delimiters, do not write the bindings of
\* their caller, and each returns the output it returns when run alone.
C19_ConcurrentRender == [][ReadOnlyStep]_vars /\ []OutputAsAlone

\* two goroutines rendered the same template, one with ExecuteString on a
\* cold or warm cache and one with ExecuteStd, and both returned
C19_Witness ==
    \E p, q \in Procs :
        /\ p # q
        /\ tpl.template = "{{a + b}}{{a * c}}"
        /\ procs[p].pc = "done" /\ procs[p].op = "ExecuteString" /\ procs[p].sink = "58"
        /\ procs[q].pc = "done" /\ procs[q].op = "ExecuteStd" /\ procs[q].sink = "58"
        /\ DOMAIN exprCache = {"a + b", "a * c"}

\* the goroutines inside the shared section and inside the exclusive
\* section of evalExpression
Readers == {p \in Procs : procs[p].pc = "lookup"}
Writers == {p \in Procs : procs[p].pc = "store"}

\* the lock is held by those inside the sections, a writer excludes every
\* reader and every other writer
Exclusion ==
    /\ mu.readers = Readers
    /\ Writers = IF mu.writer = None THEN {} ELSE {mu.writer}
    /\ Cardinality(Writers) <= 1
    /\ Writers # {} => Readers = {}

\* the cache changes only where nobody else holds the lock, and every
\* entry stays with the postfix it has
CacheStep ==
    /\ exprCache' # exprCache => (Readers = {} /\ Writers \subseteq {mu.writer})
    /\ \A e \in DOMAIN exprCache : e \in DOMAIN exprCache' /\ exprCache'[e] = exprCache[e]

\* C20: under any interleaving of concurrent evalExpression calls a lookup
\* of the expression cache holds the shared lock and an insertion the
\* exclusive lock, no reader overlaps a writer, no two writers overlap, and
\* no entry is removed or replaced by a different postfix sequence.
C20_CacheUnderLock == []Exclusion /\ [][CacheStep]_vars

\* one goroutine holds the shared lock for its lookup while another, past
\* its own lookup, waits for the exclusive lock, and the cache has an entry
C20_Witness ==
    \E p, q \in Procs :
        /\ procs[p].pc = "lookup"
        /\ procs[q].pc = "lock"
        /\ exprCache # <<>>

\* the call of fn with the one argument lit between quotes q
QuotedCall(fn, q, lit) == fn \o "(" \o q \o lit \o q \o ")"

\* the names that stand as arguments: bound to a string, bound to an int,
\* bound to bytes, unbound
ArgNames == {"name", "a", "raw", "missing"}

\* what a render writes for the call of fn that returned normally
Wrote(fn, args) == RenderValue(Invoke(fn, args).out[1])

\* C21: a quoted argument of a function call is passed to the function as
\* its literal text and is never looked up in the bindings, even when a
\* binding of that name exists; an unquoted bareword is resolved against
\* the bindings.
C21_QuotedArgIsLiteral ==
    \A k \in DOMAIN tagLog :
        \A fn \in {"upper", "validate"}, lit \in ArgNames :
            (Has(data, fn) /\ data.kv[fn].k = "func") =>
                /\ \A q \in {"'", "\""} :
                      tagLog[k].tag = QuotedCall(fn, q, lit) =>
                          /\ tagLog[k].fail = NoErr
                          /\ tagLog[k].wrote = Wrote(fn, <<StrV(lit)>>)
                /\ (/\ tagLog[k].tag = QuotedCall(fn, "", lit)
                    /\ Has(data, lit)
                    /\ data.kv[lit].k = "string") =>
                          /\ tagLog[k].fail = NoErr
                          /\ tagLog[k].wrote = Wrote(fn, <<data.kv[lit]>>)

\* upper('name') was rendered with name bound to "bob": the function got
\* the text name
C21_Witness ==
    /\ pc = "done"
    /\ Has(data, "name") /\ data.kv["name"] = StrV("bob")
    /\ \E k \in DOMAIN tagLog :
          tagLog[k].tag = "upper('name')" /\ tagLog[k].wrote = "NAME"

\* the token sequence from token k derives from operand (binaryOp operand)*
\* with balanced parentheses; an operand is a number, a string, an
\* identifier, a call or a parenthesised sequence of the same form
RECURSIVE InGrammarFrom(_, _, _, _)
InGrammarFrom(toks, k, wantOperand, depth) ==
    IF k > Len(toks) THEN ~wantOperand /\ depth = 0
    ELSE IF wantOperand
        THEN IF toks[k].typ \in {"number", "string", "ident", "call"}
                 THEN InGrammarFrom(toks, k + 1, FALSE, depth)
             ELSE IF toks[k].typ = "lparen" THEN InGrammarFrom(toks, k + 1, TRUE, depth + 1)
             ELSE FALSE
    ELSE IF toks[k].typ = "op" THEN InGrammarFrom(toks, k + 1, TRUE, depth)
    ELSE IF toks[k].typ = "rparen" /\ depth > 0
        THEN InGrammarFrom(toks, k + 1, FALSE, depth - 1)
    ELSE FALSE

InGrammar(text) ==
    LET Derives(tr) == tr.err = NoErr /\ InGrammarFrom(tr.toks, 1, TRUE, 0)
    IN  Derives(tokenize(text))

\* C22: evalExpression returns a value only for a token sequence that
\* derives from operand (binaryOp operand)* with balanced parentheses; two
\* adjacent operands, or an operator without an operand on its left or on
\* its right, give an error and never a value.
C22_ValueOnlyInGrammar ==
    \A k \in DOMAIN tagLog :
        (tagLog[k].path = "expr" /\ tagLog[k].fail = NoErr) => InGrammar(tagLog[k].tag)

\* the operands of the remainders, as the rationals an / ad and bn / bd
ModuloCases ==
    {[text |-> "7 % 2", an |-> 7, ad |-> 1, bn |-> 2, bd |-> 1],
     [text |-> "7.9 % 2.9", an |-> 79, ad |-> 10, bn |-> 29, bd |-> 10],
     [text |-> "7.5 % 1.5", an |-> 15, ad |-> 2, bn |-> 3, bd |-> 2],
     [text |-> "0.5 % 3", an |-> 1, ad |-> 2, bn |-> 3, bd |-> 1],
     [text |-> "7 % 0", an |-> 7, ad |-> 1, bn |-> 0, bd |-> 1],
     [text |-> "7 % 0.5", an |-> 7, ad |-> 1, bn |-> 1, bd |-> 2],
     [text |-> "7.9 % 0.25", an |-> 79, ad |-> 10, bn |-> 1, bd |-> 4]}

\* C23: % truncates both operands toward zero before it takes the
\* remainder, and a divisor that is zero after the truncation gives a
\* DivisionByZero error, not an abnormal termination of the evaluation.
C23_ModuloTruncates ==
    \A m \in ModuloCases :
        (pc = "done" /\ mode \in {"strict", "std"}
            /\ last.template = "x{{" \o m.text \o "}}y") =>
            /\ ~crashed
            /\ Len(tagLog) = 1
            /\ IF Trunc(m.bn, m.bd) = 0
               THEN tagLog[1].fail.kind = "DivisionByZero"
               ELSE /\ tagLog[1].fail = NoErr
                    /\ tagLog[1].wrote =
                           Sprint(IntV(GoRem(Trunc(m.an, m.ad), Trunc(m.bn, m.bd))))

\* the argument string of a call text: what stands between the first ( and
\* the closing )
ArgString(text) ==
    LET tr == TrimSpace(text)
    IN  Slice(tr, IndexByte(tr, "(") + 1, Len(tr) - 1)

\* from position k, inside the quote q ("" outside) and depth parentheses
\* deep: every quote is closed, every ) closes an earlier ( and every ( is
\* closed; a backslash inside a quote escapes the next character
RECURSIVE WellFormedFrom(_, _, _, _)
WellFormedFrom(str, k, q, depth) ==
    IF k >= Len(str) THEN q = "" /\ depth = 0
    ELSE IF q # ""
        THEN IF At(str, k) = "\\" THEN WellFormedFrom(str, k + 2, q, depth)
             ELSE IF At(str, k) = q THEN WellFormedFrom(str, k + 1, "", depth)
             ELSE WellFormedFrom(str, k + 1, q, depth)
    ELSE IF At(str, k) \in {"'", "\""} THEN WellFormedFrom(str, k + 1, At(str, k), depth)
    ELSE IF At(str, k) = "(" THEN WellFormedFrom(str, k + 1, q, depth + 1)
    ELSE IF At(str, k) = ")"
        THEN depth > 0 /\ WellFormedFrom(str, k + 1, q, depth - 1)
    ELSE WellFormedFrom(str, k + 1, q, depth)

WellFormed(str) == WellFormedFrom(str, 0, "", 0)

\* C24: parseFunctionCall fails for every argument string with an
\* unterminated quote or with parentheses that are not properly balanced,
\* one in which a ) closes no earlier ( included; no such argument string
\* gives a call tree.
C24_MalformedArgsRejected ==
    \A k \in DOMAIN tagLog :
        (isFunctionCall(tagLog[k].tag) /\ ~WellFormed(ArgString(tagLog[k].tag)))
            => parseFunctionCall(tagLog[k].tag).err # NoErr

\* from position k, inside the quote q ("" outside): some operator
\* character stands outside every quoted substring.  A quoted substring
\* runs from a quote that no backslash precedes to the next such quote of
\* the same kind; a quote of the other kind inside it is a character of it
RECURSIVE OperatorOutsideFrom(_, _, _)
OperatorOutsideFrom(str, k, q) ==
    LET c == At(str, k)
        unescaped == k = 0 \/ At(str, k - 1) # "\\"
    IN  IF k >= Len(str) THEN FALSE
        ELSE IF q # ""
            THEN OperatorOutsideFrom(str, k + 1, IF c = q /\ unescaped THEN "" ELSE q)
        ELSE IF c \in {"'", "\""} /\ unescaped THEN OperatorOutsideFrom(str, k + 1, c)
        ELSE IF c \in commonOps THEN TRUE
        ELSE OperatorOutsideFrom(str, k + 1, q)

OperatorNotQuoted(str) == OperatorOutsideFrom(TrimSpace(str), 0, "")

\* C25: a tag that is not a function call is an expression exactly when
\* some operator character stands outside every quoted substring; a quote
\* of the other kind inside a quoted substring neither opens nor closes a
\* quote.
C25_OperatorOutsideQuotes ==
    \A k \in DOMAIN tagLog :
        ~isFunctionCall(tagLog[k].tag) =>
            /\ isExpression(tagLog[k].tag) <=> OperatorNotQuoted(tagLog[k].tag)
            /\ tagLog[k].path = "expr" <=> OperatorNotQuoted(tagLog[k].tag)

\* the text of a op1 b op2 c
TierText(op1, op2) == "a " \o op1 \o " b " \o op2 \o " c"

\* (x op1 y) op2 z, as applyOperator gives it: [v, err, crash]
LeftGrouped(op1, op2, x, y, z) ==
    LET Then(r) == IF r.err # NoErr \/ r.crash THEN r ELSE applyOperator(op2, r.v, z)
    IN  Then(applyOperator(op1, x, y))

\* what is logged for a tag whose evaluation gave r
LoggedAs(entry, r) ==
    IF r.err # NoErr THEN entry.fail = r.err
    ELSE entry.fail = NoErr /\ entry.wrote = RenderValue(r.v)

\* C26: operators of equal precedence group left to right, ** included:
\* a ** b ** c is evaluated as (a ** b) ** c and a - b - c as (a - b) - c.
C26_LeftToRight ==
    \A k \in DOMAIN tagLog :
        \A op1 \in DOMAIN operators, op2 \in DOMAIN operators :
            (/\ Prec(op1) = Prec(op2)
             /\ tagLog[k].tag = TierText(op1, op2)
             /\ \A v \in {"a", "b", "c"} : Has(data, v) /\ isNumeric(data.kv[v])) =>
                LoggedAs(tagLog[k],
                         LeftGrouped(op1, op2, data.kv["a"], data.kv["b"], data.kv["c"]))

\* a ** b ** c was rendered with a = 2, b = 3 and c = 2 as 64, which is
\* (2 ** 3) ** 2 and not 2 ** (3 ** 2)
C26_Witness ==
    /\ \A v \in {"a", "b", "c"} : Has(data, v)
    /\ data.kv["a"] = IntV(2) /\ data.kv["b"] = IntV(3) /\ data.kv["c"] = IntV(2)
    /\ \E k \in DOMAIN tagLog : tagLog[k].tag = "a ** b ** c" /\ tagLog[k].wrote = "64"

\* from token k, depth parentheses deep: every ) closes an earlier ( and
\* every ( is closed
RECURSIVE ParensBalancedFrom(_, _, _)
ParensBalancedFrom(toks, k, depth) ==
    IF k > Len(toks) THEN depth = 0
    ELSE IF toks[k].typ = "lparen" THEN ParensBalancedFrom(toks, k + 1, depth + 1)
    ELSE IF toks[k].typ = "rparen"
        THEN depth > 0 /\ ParensBalancedFrom(toks, k + 1, depth - 1)
    ELSE ParensBalancedFrom(toks, k + 1, depth)

\* toPostfix rejects the tokens for their parentheses
Mismatched(toks) == toPostfix(toks).err.kind = "MismatchedParentheses"

\* an expression tag whose tokens tr are out of balance was logged as
\* failed for it, with nothing written in strict mode and the tag written
\* back in tolerant mode
MismatchLogged(entry, tr) ==
    (tr.err = NoErr /\ ~ParensBalancedFrom(tr.toks, 1, 0)) =>
        /\ entry.fail.kind = "MismatchedParentheses"
        /\ mode = "strict" => entry.wrote = "" /\ pc = "done" /\ rerr = entry.fail
        /\ mode = "std" => entry.wrote = Verbatim(entry.tag) /\ rerr = NoErr

\* C27: toPostfix returns a mismatched-parentheses error for every token
\* sequence whose parentheses are unbalanced and for no sequence whose
\* parentheses are balanced; a tag such as (1+2 writes nothing in strict
\* mode, is written back verbatim in tolerant mode, and crashes neither.
C27_MismatchedParentheses ==
    /\ \A k \in DOMAIN tagLog :
          tagLog[k].path = "expr" =>
              /\ tokenize(tagLog[k].tag).err = NoErr =>
                    (Mismatched(tokenize(tagLog[k].tag).toks)
                        <=> ~ParensBalancedFrom(tokenize(tagLog[k].tag).toks, 1, 0))
              /\ MismatchLogged(tagLog[k], tokenize(tagLog[k].tag))
    /\ (pc = "done" /\ mode \in {"strict", "std"}
            /\ last.template \in {"x{{(1 + 2}}y", "x{{(1+2}}y", "x{{1 + 2)}}y", "x{{1) + (2}}y"})
          => ~crashed /\ Len(tagLog) = 1

\* (1+2 was rendered in tolerant mode and written back
C27_Witness ==
    /\ pc = "done"
    /\ mode = "std"
    /\ sink = "x{{(1+2}}y"
    /\ Len(tagLog) = 1
    /\ tagLog[1].fail.kind = "MismatchedParentheses"

\* the text list of t is empty, or one longer than its tag list
Consistent(t) == Len(t.texts) = 0 \/ Len(t.texts) = Len(t.tags) + 1

\* C28: after any sequence of Reset calls on one Template, each returning
\* nil or an error, the text list is empty or has exactly one element more
\* than the tag list, so that a following Execute, ExecuteStd or Validate
\* indexes inside both lists.
C28_SegmentsConsistent ==
    /\ Consistent(tpl)
    /\ (pc = "texec" /\ Len(tpl.texts) > 0) =>
           /\ idx + 1 \in DOMAIN tpl.texts
           /\ idx < Len(tpl.texts) - 1 => idx + 1 \in DOMAIN tpl.tags

\* a render of a Template went through two tags after a Reset of it that
\* failed
C28_Witness ==
    /\ last.op = "Reset"
    /\ tpl.err # NoErr
    /\ Len(tpl.tags) = 2
    /\ pc = "done"
    /\ mode \in {"strict", "std"}
    /\ Len(tagLog) = 2

\* no invocable is bound: every invocable of the bindings terminates
NoInvocable(mp) == \A key \in DOMAIN mp.kv : mp.kv[key].k # "func"

\* C29: for every tag text and every bindings map whose invocables
\* terminate, classification, tokenization, Shunting-Yard conversion, call
\* parsing and evaluation end with exactly one value or one error.
C29_OneValueOrOneError ==
    (pc = "done" /\ mode \in {"strict", "std", "eval"} /\ NoInvocable(data)) =>
        /\ ~crashed
        /\ mode = "eval" => (rerr = NoErr \/ res.v = Zero(res.typ))
        /\ mode \in {"strict", "std"} =>
               \A k \in DOMAIN tagLog : tagLog[k].fail = NoErr \/ tagLog[k].wrote \in
                   {"", Verbatim(tagLog[k].tag)}

\* the postfix form of a text: [err, toks]
PostfixOf(text) ==
    LET Converted(tr) ==
            IF tr.err # NoErr THEN [err |-> tr.err, toks |-> <<>>] ELSE toPostfix(tr.toks)
    IN  Converted(tokenize(text))

\* every cached entry is the postfix form of its key; a text whose
\* tokenization or conversion fails is not a key
CacheFaithful ==
    \A e \in DOMAIN exprCache :
        PostfixOf(e).err = NoErr /\ exprCache[e] = PostfixOf(e).toks

\* the tokens a goroutine is about to store or to evaluate, found in the
\* cache or made by itself, are the postfix form of its tag
EvaluatesOwnPostfix ==
    \A p \in Procs :
        procs[p].pc \in {"lock", "store", "eval"} =>
            procs[p].toks = PostfixOf(tpl.tags[procs[p].idx + 1]).toks

\* a step leaves every cached token sequence as it is
EntriesKept == \A e \in DOMAIN exprCache : e \in DOMAIN exprCache' /\ exprCache'[e] = exprCache[e]

\* C30: the expression cache is transparent: an evaluation returns the same
\* value or error whether or not the cache holds its text and whatever was
\* evaluated before or concurrently; every cached entry is the postfix form
\* of its own key, a text whose tokenization or postfix conversion fails is
\* never inserted, and no evaluation modifies a cached token sequence.
C30_CacheTransparent ==
    [](CacheFaithful /\ EvaluatesOwnPostfix /\ OutputAsAlone) /\ [][EntriesKept]_vars

\* a goroutine evaluated a + b from the cache that another goroutine had
\* filled, after a tag whose conversion failed and was not cached
C30_Witness ==
    \E p, q \in Procs :
        /\ p # q
        /\ tpl.template = "{{(a + b}}{{a + b}}"
        /\ DOMAIN exprCache = {"a + b"}
        /\ procs[p].pc = "done" /\ procs[p].op = "ExecuteStd" /\ procs[p].sink = "{{(a + b}}5"
        /\ procs[q].pc = "eval" /\ procs[q].op = "ExecuteStringStd" /\ procs[q].idx = 1

=============================================================================
